---- MODULE Spec2Model ----
(***************************************************************************)
(* Routes of Foundry over the relational store declared in the drizzle     *)
(* schema: processing jobs (src/server/routes/jobs.ts), schema mappings    *)
(* (projects.ts), team members (organisations), registration and           *)
(* invitations (auth.ts), the rate limiter and the error handler.  Every   *)
(* `await db...` of a handler is one database statement and one step of    *)
(* the model: the handlers run without a transaction, so statements of     *)
(* different requests interleave.  The response is produced synchronously  *)
(* after the last statement and belongs to that step.                      *)
(***************************************************************************)
EXTENDS Integers, Sequences, FiniteSets, TLC

\* ---------------------------------------------------------------- bounds
MaxReqs == 2          \* request slots; each slot serves one HTTP request
MaxJobs == 2          \* rows of processing_jobs the model lets exist
MaxTime == 1          \* last value of the wall clock
MaxApiReqs == 1       \* request slots used under ApiSpec
MaxPollTicks == 4     \* steps the wall clock takes under PollSpec
PollTickMs == 500     \* milliseconds of one such step
MaxHits == 12         \* requests the limiter counts within its running windows
MaxRateJobs == 1      \* rows of processing_jobs the model lets exist under RateSpec
MaxRateTicks == 2     \* steps (of half a window) the wall clock takes under RateSpec

\* ------------------------------------------------------------- constants
NULL == -1            \* SQL NULL of a nullable integer / timestamp column
NONE == "null"        \* SQL NULL of a nullable text column

Reqs == 1..MaxReqs
Orgs == {1, 2}
Roles == {"editor", "viewer"}
ProjectIds == {1, 2, 3}
MappingIds == {1, 2, 3, 4, 5}
JobStatuses == {"pending", "processing", "completed", "failed", "cancelled"}
Terminal == {"completed", "failed", "cancelled"}
SeedStatuses == {"processing", "completed", "failed"}

MsgCreated == "Job created and queued for processing"
MsgCancelled == "Job cancelled by user"
MsgRetry == "Job queued for retry"

VARIABLES
  projects,        \* table projects: id -> row
  schemaMappings,  \* table schema_mappings: id -> row
  dataSources,     \* table data_sources: id -> row
  jobs,            \* table processing_jobs: id -> row
  nextJobId,       \* serial of processing_jobs.id
  jobLogs,         \* table job_logs, in insertion (serial id) order
  reqs,            \* in-flight and finished HTTP requests
  now,             \* wall clock read by new Date()
  teamMembers,     \* table team_members: userId -> row
  tokens,          \* JWTs issued and not yet expired: their (userId, role) claims
  users,           \* table users, in insertion (serial id) order
  invitations,     \* table invitations: token -> row
  rateStore,       \* store of processingLimiter: key -> hits and end of window
  nodeEnv          \* process.env.NODE_ENV

\* the tables and the clock of the job routes
jobVars == <<projects, schemaMappings, dataSources, jobs, nextJobId, jobLogs, now>>

\* the tables of the organisation and authentication routes
accountVars == <<teamMembers, tokens, users, invitations>>

\* state of the server process
serverVars == <<rateStore, nodeEnv>>

vars == <<projects, schemaMappings, dataSources, jobs, nextJobId, jobLogs, reqs, now,
          teamMembers, tokens, users, invitations, rateStore, nodeEnv>>

\* ------------------------------------------------------------ the tables
\* Rows of processing_jobs carry the columns the job routes read or the
\* claims speak of; outputFormat, outputName and createdAt are left out (they
\* are written once by the insert and no handler decides anything on them).
\* A job row as the stage executors (not part of the routes) leave it.
SeedJob(st) ==
  [organisationId |-> 1, projectId |-> 1, schemaMappingId |-> 1, dataSourceId |-> 1,
   status |-> st,
   inputRecordCount |-> 3,
   outputRecordCount |-> IF st = "completed" THEN 3 ELSE NULL,
   piiDetectedCount |-> IF st = "completed" THEN 1 ELSE NULL,
   progress |-> IF st = "pending" THEN 0 ELSE IF st = "completed" THEN 100 ELSE 50,
   currentStage |-> IF st = "pending" THEN NONE ELSE "filter",
   errorMessage |-> IF st = "failed" THEN "stage X crashed" ELSE NONE,
   startedAt |-> IF st = "pending" THEN NULL ELSE 0,
   completedAt |-> IF st \in Terminal THEN 0 ELSE NULL,
   updatedAt |-> 0]

LogRow(jobId, message, t) ==
  [jobId |-> jobId, level |-> "info", message |-> message, createdAt |-> t]

\* a response without a data envelope (an error, or 204)
NoBody == [kind |-> "none"]

IdleReq ==
  [op |-> "none", pc |-> "idle", result |-> "none", body |-> NoBody,
   organisationId |-> 0, projectId |-> 0, schemaMappingId |-> 0,
   jobId |-> 0, jobStatus |-> NONE, dataSourceId |-> 0, recordCount |-> NULL,
   at |-> NULL, totalCount |-> 0, statusFilter |-> NONE]

\* The tables the job routes only read.  Project 3 is soft-deleted; mapping 3
\* is inactive; data source 4 is still pending; project 2 belongs to the
\* second organisation and its data source has no record count yet.  Data
\* sources 5 (project 1) and 6 (project 2) have no schema mapping.
InitProjects ==
  [p \in {1, 2, 3} |->
     [organisationId |-> IF p = 2 THEN 2 ELSE 1,
      deletedAt |-> IF p = 3 THEN 0 ELSE NULL]]

InitSchemaMappings ==
  [m \in {1, 2, 3, 4} |->
     [organisationId |-> IF m = 2 THEN 2 ELSE 1,
      projectId |-> IF m = 2 THEN 2 ELSE 1,
      dataSourceId |-> m,
      isActive |-> IF m = 3 THEN 0 ELSE 1]]

InitDataSources ==
  [d \in {1, 2, 3, 4, 5, 6} |->
     [organisationId |-> IF d \in {2, 6} THEN 2 ELSE 1,
      projectId |-> IF d \in {2, 6} THEN 2 ELSE 1,
      status |-> IF d = 4 THEN "pending" ELSE "ready",
      recordCount |-> IF d \in {2, 6} THEN NULL ELSE 3,
      deletedAt |-> NULL]]

\* Organisation 1 has two admins (users 1 and 2) and an editor (user 3);
\* organisation 2 has one admin (user 4).
InitTeamMembers ==
  [u \in {1, 2, 3, 4} |->
     [organisationId |-> IF u = 4 THEN 2 ELSE 1,
      role |-> IF u = 3 THEN "editor" ELSE "admin"]]

\* values(...) of an insert into users made for an invitation
UserRow(email, organisationId, invitedBy) ==
  [email |-> email, organisationId |-> organisationId, role |-> "user",
   status |-> "active", invitedBy |-> invitedBy]

\* the rows of users that belong to the members
InitUsers ==
  [u \in 1..4 |->
     [UserRow("member", IF u = 4 THEN 2 ELSE 1, NULL) EXCEPT !.role = "admin"]]

\* Invitation "open" was sent by user 1 to the address "invited" and runs
\* out after InviteExpiresAt; invitation "used" has been accepted.
InviteExpiresAt == 0

InitInvitations ==
  [t \in {"open", "used"} |->
     [organisationId |-> 1, email |-> "invited", role |-> "editor", invitedBy |-> 1,
      expiresAt |-> InviteExpiresAt,
      acceptedAt |-> IF t = "used" THEN 0 ELSE NULL]]

\* every member holds a token that carries the member's present role
InitAccounts ==
  /\ teamMembers = InitTeamMembers
  /\ tokens = {[userId |-> u, organisationId |-> InitTeamMembers[u].organisationId,
                role |-> InitTeamMembers[u].role] : u \in DOMAIN InitTeamMembers}
  /\ users = InitUsers
  /\ invitations = InitInvitations

\* a server started with NODE_ENV=production whose limiter has seen no request
InitServer ==
  /\ rateStore = <<>>
  /\ nodeEnv = "production"

Init ==
  /\ projects = InitProjects
  /\ schemaMappings = InitSchemaMappings
  /\ dataSources = InitDataSources
  /\ \/ /\ jobs = <<>>
        /\ nextJobId = 1
        /\ jobLogs = <<>>
     \/ \E st \in SeedStatuses :
        /\ jobs = (1 :> SeedJob(st))
        /\ nextJobId = 2
        /\ jobLogs = <<LogRow(1, MsgCreated, 0)>>
  /\ reqs = [r \in Reqs |-> IdleReq]
  /\ now = 0
  /\ InitAccounts
  /\ InitServer

\* ------------------------------------------------------------- helpers
\* A finished request keeps its kind and its response.  An insert that
\* breaks a foreign key is answered by the error handler with 400
\* VALIDATION_ERROR ("ValidationError").
Finish(q, result) ==
  [IdleReq EXCEPT !.op = q.op, !.pc = "done", !.result = result]

\* db.update(processingJobs).set(...).where(eq(processingJobs.id, id))
UpdateJob(id, row) ==
  IF id \in DOMAIN jobs THEN [jobs EXCEPT ![id] = row] ELSE jobs


\* logs of one job, oldest first
LogsOf(j) == SelectSeq(jobLogs, LAMBDA e : e.jobId = j)

InFlightCreates == {r \in Reqs : reqs[r].op = "create" /\ reqs[r].pc \in {"findMapping", "insertJob"}}

\* requireRole('admin', 'editor')
AllowedRoles == {"admin", "editor"}

\* verifyProjectAccess: "ok" or the error it throws
verifyProjectAccess(projectId, organisationId) ==
  IF projectId \notin DOMAIN projects \/ projects[projectId].deletedAt # NULL
  THEN "NotFound"
  ELSE IF projects[projectId].organisationId # organisationId
  THEN "Forbidden"
  ELSE "ok"

\* schemaMappings.findFirst(where id = schemaMappingId and projectId = projectId)
FindMapping(schemaMappingId, projectId) ==
  {m \in DOMAIN schemaMappings :
     m = schemaMappingId /\ schemaMappings[m].projectId = projectId}

\* CreatePrecondition without the isActive check
CreatePrecondition_NoActiveCheck(schemaMappingId, projectId) ==
  IF FindMapping(schemaMappingId, projectId) = {}
  THEN "NotFound"
  ELSE IF schemaMappings[schemaMappingId].dataSourceId \notin DOMAIN dataSources
          \/ dataSources[schemaMappings[schemaMappingId].dataSourceId].status # "ready"
  THEN "BadRequest"
  ELSE "ok"

\* the checks between the mapping query and the insert: "ok" or the error thrown
CreatePrecondition(schemaMappingId, projectId) ==
  IF FindMapping(schemaMappingId, projectId) = {}
  THEN "NotFound"
  ELSE IF schemaMappings[schemaMappingId].isActive # 1
  THEN "BadRequest"
  ELSE IF schemaMappings[schemaMappingId].dataSourceId \notin DOMAIN dataSources
          \/ dataSources[schemaMappings[schemaMappingId].dataSourceId].status # "ready"
  THEN "BadRequest"
  ELSE "ok"

\* NewJobRow with `dataSource.recordCount` stored as it is, without `|| 0`
NewJobRow_RawRecordCount(organisationId, projectId, schemaMappingId, dataSourceId, recordCount, t) ==
  [organisationId |-> organisationId, projectId |-> projectId,
   schemaMappingId |-> schemaMappingId, dataSourceId |-> dataSourceId,
   status |-> "pending",
   inputRecordCount |-> recordCount,
   outputRecordCount |-> NULL, piiDetectedCount |-> NULL,
   progress |-> 0, currentStage |-> NONE, errorMessage |-> NONE,
   startedAt |-> NULL, completedAt |-> NULL, updatedAt |-> t]

\* values(...) of the insert into processing_jobs; columns left out take
\* their schema defaults (updatedAt: defaultNow)
NewJobRow(organisationId, projectId, schemaMappingId, dataSourceId, recordCount, t) ==
  [organisationId |-> organisationId, projectId |-> projectId,
   schemaMappingId |-> schemaMappingId, dataSourceId |-> dataSourceId,
   status |-> "pending",
   inputRecordCount |-> IF recordCount = NULL THEN 0 ELSE recordCount,
   outputRecordCount |-> NULL, piiDetectedCount |-> NULL,
   progress |-> 0, currentStage |-> NONE, errorMessage |-> NONE,
   startedAt |-> NULL, completedAt |-> NULL, updatedAt |-> t]

\* set({status: 'processing', startedAt: new Date(), currentStage: 'initializing'})
StartSet(row, t) ==
  [row EXCEPT !.status = "processing", !.startedAt = t, !.currentStage = "initializing"]

\* CanCancel that also lets a failed job through
CanCancel_AlsoFailed(status) == status \in {"pending", "processing", "failed"}

\* ['pending', 'processing'].includes(job.status)
CanCancel(status) == status \in {"pending", "processing"}

\* CancelSet that also puts progress back to 0
CancelSet_ResetsProgress(row, t) ==
  [row EXCEPT !.status = "cancelled", !.completedAt = t, !.updatedAt = t,
              !.progress = 0]

\* CancelSet that also clears the stage
CancelSet_ClearsStage(row, t) ==
  [row EXCEPT !.status = "cancelled", !.completedAt = t, !.updatedAt = t,
              !.currentStage = NONE]

\* set({status: 'cancelled', completedAt: new Date(), updatedAt: new Date()})
CancelSet(row, t) ==
  [row EXCEPT !.status = "cancelled", !.completedAt = t, !.updatedAt = t]

\* CanRetry that also lets a cancelled job through
CanRetry_AlsoCancelled(status) == status \in {"failed", "cancelled"}

\* CanRetry that refuses only a completed job
CanRetry_NotCompleted(status) == status # "completed"

\* job.status === 'failed'
CanRetry(status) == status = "failed"

\* ResetSet that writes 0 to the two result counts instead of null
ResetSet_ZeroCounts(row, t) ==
  [row EXCEPT !.status = "pending", !.progress = 0, !.currentStage = NONE,
              !.errorMessage = NONE, !.outputRecordCount = 0,
              !.piiDetectedCount = 0, !.startedAt = NULL,
              !.completedAt = NULL, !.updatedAt = t]

\* ResetSet that also clears the input record count
ResetSet_ClearsInput(row, t) ==
  [row EXCEPT !.status = "pending", !.progress = 0, !.currentStage = NONE,
              !.errorMessage = NONE, !.outputRecordCount = NULL,
              !.piiDetectedCount = NULL, !.startedAt = NULL,
              !.completedAt = NULL, !.updatedAt = t, !.inputRecordCount = 0]

\* ResetSet that leaves startedAt as it was
ResetSet_KeepsStartedAt(row, t) ==
  [row EXCEPT !.status = "pending", !.progress = 0, !.currentStage = NONE,
              !.errorMessage = NONE, !.outputRecordCount = NULL,
              !.piiDetectedCount = NULL, !.completedAt = NULL, !.updatedAt = t]

\* the reset of POST /:jobId/retry
ResetSet(row, t) ==
  [row EXCEPT !.status = "pending", !.progress = 0, !.currentStage = NONE,
              !.errorMessage = NONE, !.outputRecordCount = NULL,
              !.piiDetectedCount = NULL, !.startedAt = NULL,
              !.completedAt = NULL, !.updatedAt = t]

\* request slots are taken in order (the slots are interchangeable)
Free(r) == reqs[r].pc = "idle" /\ (IF r = 1 THEN TRUE ELSE reqs[r - 1].pc # "idle")

\* JobAccess without the comparison of the organisations
JobAccess_NoOrgCheck(jobId, organisationId) ==
  IF jobId \notin DOMAIN jobs THEN "NotFound" ELSE "ok"

\* the lookup and the checks that open cancel, retry and the job reads:
\* "ok" or the error thrown
JobAccess(jobId, organisationId) ==
  IF jobId \notin DOMAIN jobs THEN "NotFound"
  ELSE IF jobs[jobId].organisationId # organisationId THEN "Forbidden"
  ELSE "ok"

\* --------------------------------------------- POST /projects/:projectId/jobs
\* requireRole and verifyProjectAccess: the request after them
CreateJob_Check(org, role, p, m) ==
  LET q == [IdleReq EXCEPT !.op = "create", !.organisationId = org,
                           !.projectId = p, !.schemaMappingId = m]
  IN IF role \notin AllowedRoles THEN Finish(q, "Forbidden")
     ELSE IF verifyProjectAccess(p, org) # "ok"
     THEN Finish(q, verifyProjectAccess(p, org))
     ELSE [q EXCEPT !.pc = "findMapping"]

\* middleware chain and verifyProjectAccess
CreateJob_Begin(r) ==
  /\ Free(r)
  /\ nextJobId + Cardinality(InFlightCreates) <= MaxJobs
  /\ \E org \in Orgs, role \in Roles, p \in ProjectIds, m \in MappingIds :
       reqs' = [reqs EXCEPT ![r] = CreateJob_Check(org, role, p, m)]
  /\ UNCHANGED <<accountVars, serverVars, projects, schemaMappings, dataSources, jobs, nextJobId, jobLogs, now>>

\* the mapping query (with its data source) and the precondition checks
CreateJob_FindMapping(r) ==
  /\ reqs[r].op = "create" /\ reqs[r].pc = "findMapping"
  /\ LET q == reqs[r]
         c == CreatePrecondition(q.schemaMappingId, q.projectId)
     IN reqs' = [reqs EXCEPT ![r] =
          IF c # "ok" THEN Finish(q, c)
          ELSE [q EXCEPT !.pc = "insertJob",
                         !.dataSourceId = schemaMappings[q.schemaMappingId].dataSourceId,
                         !.recordCount =
                            dataSources[schemaMappings[q.schemaMappingId].dataSourceId].recordCount]]
  /\ UNCHANGED <<accountVars, serverVars, projects, schemaMappings, dataSources, jobs, nextJobId, jobLogs, now>>

\* insert into processing_jobs ... returning; the insert takes a value of
\* the serial and fails on the foreign key when the mapping row is gone
CreateJob_InsertJob(r) ==
  /\ reqs[r].op = "create" /\ reqs[r].pc = "insertJob"
  /\ LET q == reqs[r]
     IN IF q.schemaMappingId \in DOMAIN schemaMappings
        THEN /\ jobs' = (nextJobId :> NewJobRow(q.organisationId, q.projectId,
                        q.schemaMappingId, q.dataSourceId, q.recordCount, now)) @@ jobs
             /\ reqs' = [reqs EXCEPT ![r] = [q EXCEPT !.pc = "insertLog", !.jobId = nextJobId,
                                                 !.jobStatus = "pending"]]
        ELSE /\ jobs' = jobs
             /\ reqs' = [reqs EXCEPT ![r] = Finish(q, "ValidationError")]
  /\ nextJobId' = nextJobId + 1
  /\ UNCHANGED <<accountVars, serverVars, projects, schemaMappings, dataSources, jobLogs, now>>

\* insert into job_logs: 'Job created and queued for processing'
CreateJob_InsertLog(r) ==
  /\ reqs[r].op = "create" /\ reqs[r].pc = "insertLog"
  /\ IF reqs[r].jobId \in DOMAIN jobs
     THEN /\ jobLogs' = Append(jobLogs, LogRow(reqs[r].jobId, MsgCreated, now))
          /\ reqs' = [reqs EXCEPT ![r].pc = "autoStart"]
     ELSE /\ jobLogs' = jobLogs
          /\ reqs' = [reqs EXCEPT ![r] = Finish(reqs[r], "ValidationError")]
  /\ UNCHANGED <<accountVars, serverVars, projects, schemaMappings, dataSources, jobs, nextJobId, now>>

\* the auto-start update, then sendCreated
CreateJob_AutoStart(r) ==
  /\ reqs[r].op = "create" /\ reqs[r].pc = "autoStart"
  /\ jobs' = UpdateJob(reqs[r].jobId, StartSet(jobs[reqs[r].jobId], now))
  /\ reqs' = [reqs EXCEPT ![r] = Finish(reqs[r], "201")]
  /\ UNCHANGED <<accountVars, serverVars, projects, schemaMappings, dataSources, nextJobId, jobLogs, now>>

\* ------------------------------------------------------ POST /:jobId/cancel
\* requireRole, the job query and the three checks: the request after them
CancelJob_Check(org, role, j) ==
  LET q == [IdleReq EXCEPT !.op = "cancel", !.jobId = j]
  IN IF role \notin AllowedRoles THEN Finish(q, "Forbidden")
     ELSE IF JobAccess(j, org) # "ok" THEN Finish(q, JobAccess(j, org))
     ELSE IF ~CanCancel(jobs[j].status) THEN Finish(q, "BadRequest")
     ELSE [q EXCEPT !.pc = "update", !.jobStatus = jobs[j].status]

\* middleware, the job query and the three checks
CancelJob_Begin(r) ==
  /\ Free(r)
  /\ \E org \in Orgs, role \in Roles, j \in 1..MaxJobs :
       reqs' = [reqs EXCEPT ![r] = CancelJob_Check(org, role, j)]
  /\ UNCHANGED <<accountVars, serverVars, projects, schemaMappings, dataSources, jobs, nextJobId, jobLogs, now>>

\* update processing_jobs set status = 'cancelled' ...
CancelJob_Update(r) ==
  /\ reqs[r].op = "cancel" /\ reqs[r].pc = "update"
  /\ jobs' = UpdateJob(reqs[r].jobId, CancelSet(jobs[reqs[r].jobId], now))
  /\ reqs' = [reqs EXCEPT ![r].pc = "insertLog"]
  /\ UNCHANGED <<accountVars, serverVars, projects, schemaMappings, dataSources, nextJobId, jobLogs, now>>

\* insert into job_logs: 'Job cancelled by user', then sendSuccess
CancelJob_InsertLog(r) ==
  /\ reqs[r].op = "cancel" /\ reqs[r].pc = "insertLog"
  /\ IF reqs[r].jobId \in DOMAIN jobs
     THEN /\ jobLogs' = Append(jobLogs, LogRow(reqs[r].jobId, MsgCancelled, now))
          /\ reqs' = [reqs EXCEPT ![r] = Finish(reqs[r], "200")]
     ELSE /\ jobLogs' = jobLogs
          /\ reqs' = [reqs EXCEPT ![r] = Finish(reqs[r], "ValidationError")]
  /\ UNCHANGED <<accountVars, serverVars, projects, schemaMappings, dataSources, jobs, nextJobId, now>>

\* ------------------------------------------------------- POST /:jobId/retry
\* requireRole, the job query and the three checks: the request after them
RetryJob_Check(org, role, j) ==
  LET q == [IdleReq EXCEPT !.op = "retry", !.jobId = j]
  IN IF role \notin AllowedRoles THEN Finish(q, "Forbidden")
     ELSE IF JobAccess(j, org) # "ok" THEN Finish(q, JobAccess(j, org))
     ELSE IF ~CanRetry(jobs[j].status) THEN Finish(q, "BadRequest")
     ELSE [q EXCEPT !.pc = "reset", !.jobStatus = jobs[j].status]

\* middleware, the job query and the three checks
RetryJob_Begin(r) ==
  /\ Free(r)
  /\ \E org \in Orgs, role \in Roles, j \in 1..MaxJobs :
       reqs' = [reqs EXCEPT ![r] = RetryJob_Check(org, role, j)]
  /\ UNCHANGED <<accountVars, serverVars, projects, schemaMappings, dataSources, jobs, nextJobId, jobLogs, now>>

\* the reset update
RetryJob_Reset(r) ==
  /\ reqs[r].op = "retry" /\ reqs[r].pc = "reset"
  /\ jobs' = UpdateJob(reqs[r].jobId, ResetSet(jobs[reqs[r].jobId], now))
  /\ reqs' = [reqs EXCEPT ![r].pc = "insertLog"]
  /\ UNCHANGED <<accountVars, serverVars, projects, schemaMappings, dataSources, nextJobId, jobLogs, now>>

\* insert into job_logs: 'Job queued for retry'
RetryJob_InsertLog(r) ==
  /\ reqs[r].op = "retry" /\ reqs[r].pc = "insertLog"
  /\ IF reqs[r].jobId \in DOMAIN jobs
     THEN /\ jobLogs' = Append(jobLogs, LogRow(reqs[r].jobId, MsgRetry, now))
          /\ reqs' = [reqs EXCEPT ![r].pc = "start"]
     ELSE /\ jobLogs' = jobLogs
          /\ reqs' = [reqs EXCEPT ![r] = Finish(reqs[r], "ValidationError")]
  /\ UNCHANGED <<accountVars, serverVars, projects, schemaMappings, dataSources, jobs, nextJobId, now>>

\* the start update, then sendSuccess
RetryJob_Start(r) ==
  /\ reqs[r].op = "retry" /\ reqs[r].pc = "start"
  /\ jobs' = UpdateJob(reqs[r].jobId, StartSet(jobs[reqs[r].jobId], now))
  /\ reqs' = [reqs EXCEPT ![r] = Finish(reqs[r], "200")]
  /\ UNCHANGED <<accountVars, serverVars, projects, schemaMappings, dataSources, nextJobId, jobLogs, now>>

\* wall time passes
Tick ==
  /\ now < MaxTime
  /\ now' = now + 1
  /\ UNCHANGED <<accountVars, serverVars, projects, schemaMappings, dataSources, jobs, nextJobId, jobLogs, reqs>>

Next ==
  \/ \E r \in Reqs : CreateJob_Begin(r)
  \/ \E r \in Reqs : CreateJob_FindMapping(r)
  \/ \E r \in Reqs : CreateJob_InsertJob(r)
  \/ \E r \in Reqs : CreateJob_InsertLog(r)
  \/ \E r \in Reqs : CreateJob_AutoStart(r)
  \/ \E r \in Reqs : CancelJob_Begin(r)
  \/ \E r \in Reqs : CancelJob_Update(r)
  \/ \E r \in Reqs : CancelJob_InsertLog(r)
  \/ \E r \in Reqs : RetryJob_Begin(r)
  \/ \E r \in Reqs : RetryJob_Reset(r)
  \/ \E r \in Reqs : RetryJob_InsertLog(r)
  \/ \E r \in Reqs : RetryJob_Start(r)
  \/ Tick

Spec == Init /\ [][Next]_vars

\* a handler that has been entered runs on: each of its awaited statements
\* returns and the next one is issued
Continue(r) ==
  \/ CreateJob_FindMapping(r) \/ CreateJob_InsertJob(r)
  \/ CreateJob_InsertLog(r) \/ CreateJob_AutoStart(r)
  \/ CancelJob_Update(r) \/ CancelJob_InsertLog(r)
  \/ RetryJob_Reset(r) \/ RetryJob_InsertLog(r) \/ RetryJob_Start(r)

\* The job routes with every entered handler running to its response;
\* whether further requests arrive is left open.
FairSpec == Init /\ [][Next]_vars /\ \A r \in Reqs : WF_vars(Continue(r))

\* ------------------------------------------------------------ GET /:jobId
\* the job object of the response
JobView(j) ==
  [kind |-> "job", id |-> j,
   projectId |-> jobs[j].projectId, dataSourceId |-> jobs[j].dataSourceId,
   schemaMappingId |-> jobs[j].schemaMappingId, status |-> jobs[j].status,
   inputRecordCount |-> jobs[j].inputRecordCount,
   outputRecordCount |-> jobs[j].outputRecordCount,
   piiDetectedCount |-> jobs[j].piiDetectedCount,
   progress |-> jobs[j].progress, currentStage |-> jobs[j].currentStage,
   errorMessage |-> jobs[j].errorMessage,
   startedAt |-> jobs[j].startedAt, completedAt |-> jobs[j].completedAt]

\* the whole handler: the job query, the two checks, sendSuccess
GetJob_Check(org, j) ==
  LET q == [IdleReq EXCEPT !.op = "get"]
  IN IF JobAccess(j, org) # "ok" THEN Finish(q, JobAccess(j, org))
     ELSE [Finish(q, "200") EXCEPT !.body = JobView(j)]

GetJob(r) ==
  /\ Free(r)
  /\ \E org \in Orgs, j \in 1..MaxJobs :
       reqs' = [reqs EXCEPT ![r] = GetJob_Check(org, j)]
  /\ UNCHANGED <<accountVars, serverVars, projects, schemaMappings, dataSources, jobs, nextJobId, jobLogs, now>>

\* --------------------------------------------------- GET /:jobId/progress
\* Math.round of the quotient n / d, for d > 0: the nearest integer, a half
\* going up
RoundDiv(n, d) == (2 * n + d) \div (2 * d)

\* EstimatedTimeRemaining counting down from a fixed total of one second
\* for each percent still to do
EstimatedTimeRemaining_Countdown(row, t) ==
  IF row.status = "processing" /\ row.progress > 0 /\ row.startedAt # NULL
  THEN LET elapsed == t - row.startedAt
           eta == RoundDiv(1000 * (100 - row.progress) - elapsed, 1000)
       IN IF eta > 0 THEN eta ELSE 0
  ELSE NULL

\* EstimatedTimeRemaining with the seconds cut off instead of rounded
EstimatedTimeRemaining_Truncated(row, t) ==
  IF row.status = "processing" /\ row.progress > 0 /\ row.startedAt # NULL
  THEN LET elapsed == t - row.startedAt
           eta == (elapsed * 100 - elapsed * row.progress) \div (1000 * row.progress)
       IN IF eta > 0 THEN eta ELSE 0
  ELSE NULL

\* estimatedTimeRemaining at time t (milliseconds): null unless the job is
\* processing with progress > 0 and startedAt set; otherwise
\* max(0, round((elapsed / progress * 100 - elapsed) / 1000)).  The quotient
\* is taken exactly where the code takes it in floating point.
EstimatedTimeRemaining(row, t) ==
  IF row.status = "processing" /\ row.progress > 0 /\ row.startedAt # NULL
  THEN LET elapsed == t - row.startedAt
           eta == RoundDiv(elapsed * 100 - elapsed * row.progress, 1000 * row.progress)
       IN IF eta > 0 THEN eta ELSE 0
  ELSE NULL

\* ProgressSnapshot with processedRecords cut off instead of rounded
ProgressSnapshot_Floor(j, row, t) ==
  [kind |-> "progress", jobId |-> j, status |-> row.status,
   currentStage |-> row.currentStage, overallProgress |-> row.progress,
   processedRecords |-> (row.inputRecordCount * row.progress) \div 100,
   totalRecords |-> row.inputRecordCount,
   estimatedTimeRemaining |-> EstimatedTimeRemaining(row, t),
   piiDetectedCount |-> row.piiDetectedCount]

\* the progress object of the response
ProgressSnapshot(j, row, t) ==
  [kind |-> "progress", jobId |-> j, status |-> row.status,
   currentStage |-> row.currentStage, overallProgress |-> row.progress,
   processedRecords |-> RoundDiv(row.inputRecordCount * row.progress, 100),
   totalRecords |-> row.inputRecordCount,
   estimatedTimeRemaining |-> EstimatedTimeRemaining(row, t),
   piiDetectedCount |-> row.piiDetectedCount]

\* the whole handler: the job query, the two checks, sendSuccess
GetProgress_Check(org, j, t) ==
  LET q == [IdleReq EXCEPT !.op = "progress"]
  IN IF JobAccess(j, org) # "ok" THEN Finish(q, JobAccess(j, org))
     ELSE [Finish(q, "200") EXCEPT !.body = ProgressSnapshot(j, jobs[j], t), !.at = t]

\* GetProgress that stamps the row it has read
GetProgress_Touches(r) ==
  /\ Free(r)
  /\ \E org \in Orgs, j \in 1..MaxJobs :
       /\ reqs' = [reqs EXCEPT ![r] = GetProgress_Check(org, j, now)]
       /\ jobs' = IF JobAccess(j, org) = "ok"
                  THEN [jobs EXCEPT ![j].updatedAt = now] ELSE jobs
  /\ UNCHANGED <<accountVars, serverVars, projects, schemaMappings, dataSources, nextJobId, jobLogs, now>>

GetProgress(r) ==
  /\ Free(r)
  /\ \E org \in Orgs, j \in 1..MaxJobs :
       reqs' = [reqs EXCEPT ![r] = GetProgress_Check(org, j, now)]
  /\ UNCHANGED <<accountVars, serverVars, projects, schemaMappings, dataSources, jobs, nextJobId, jobLogs, now>>

\* ------------------------------------------------------- GET /:jobId/logs
\* the job query and the two checks
GetLogs_Check(org, j) ==
  LET q == [IdleReq EXCEPT !.op = "logs", !.jobId = j]
  IN IF JobAccess(j, org) # "ok" THEN Finish(q, JobAccess(j, org))
     ELSE [q EXCEPT !.pc = "count"]

GetLogs_Begin(r) ==
  /\ Free(r)
  /\ \E org \in Orgs, j \in 1..MaxJobs :
       reqs' = [reqs EXCEPT ![r] = GetLogs_Check(org, j)]
  /\ UNCHANGED <<accountVars, serverVars, projects, schemaMappings, dataSources, jobs, nextJobId, jobLogs, now>>

\* select count(*) from job_logs where job_id = jobId
GetLogs_Count(r) ==
  /\ reqs[r].op = "logs" /\ reqs[r].pc = "count"
  /\ reqs' = [reqs EXCEPT ![r].pc = "find", ![r].totalCount = Len(LogsOf(reqs[r].jobId))]
  /\ UNCHANGED <<accountVars, serverVars, projects, schemaMappings, dataSources, jobs, nextJobId, jobLogs, now>>

\* the orders in which `orderBy: desc(createdAt)` can return the entries of
\* job j: newest first, entries of equal createdAt in any order
LogPages(j) ==
  LET l == LogsOf(j)
      n == Len(l)
  IN { [i \in 1..n |-> [level |-> l[f[i]].level, message |-> l[f[i]].message,
                          timestamp |-> l[f[i]].createdAt]] :
         f \in { g \in [1..n -> 1..n] :
                   /\ \A a, b \in 1..n : a # b => g[a] # g[b]
                   /\ \A a, b \in 1..n : a < b => l[g[a]].createdAt >= l[g[b]].createdAt } }

\* jobLogs.findMany (first page), sendPaginated
GetLogs_Find(r) ==
  /\ reqs[r].op = "logs" /\ reqs[r].pc = "find"
  /\ \E page \in LogPages(reqs[r].jobId) :
       reqs' = [reqs EXCEPT ![r] =
          [Finish(reqs[r], "200") EXCEPT
             !.body = [kind |-> "logs", logs |-> page, totalCount |-> reqs[r].totalCount]]]
  /\ UNCHANGED <<accountVars, serverVars, projects, schemaMappings, dataSources, jobs, nextJobId, jobLogs, now>>

\* --------------------------------------------- GET /projects/:projectId/jobs
\* verifyProjectAccess
ListJobs_Check(org, p, statusFilter) ==
  LET q == [IdleReq EXCEPT !.op = "list", !.projectId = p, !.statusFilter = statusFilter]
  IN IF verifyProjectAccess(p, org) # "ok" THEN Finish(q, verifyProjectAccess(p, org))
     ELSE [q EXCEPT !.pc = "count"]

ListJobs_Begin(r) ==
  /\ Free(r)
  /\ \E org \in Orgs, p \in ProjectIds, statusFilter \in {NONE, "processing"} :
       reqs' = [reqs EXCEPT ![r] = ListJobs_Check(org, p, statusFilter)]
  /\ UNCHANGED <<accountVars, serverVars, projects, schemaMappings, dataSources, jobs, nextJobId, jobLogs, now>>

\* the rows the where clause of the list selects
ListedJobs(p, statusFilter) ==
  {j \in DOMAIN jobs :
     /\ jobs[j].projectId = p
     /\ statusFilter # NONE => jobs[j].status = statusFilter}

\* select count(*) from processing_jobs where ...
ListJobs_Count(r) ==
  /\ reqs[r].op = "list" /\ reqs[r].pc = "count"
  /\ reqs' = [reqs EXCEPT ![r].pc = "find",
        ![r].totalCount = Cardinality(ListedJobs(reqs[r].projectId, reqs[r].statusFilter))]
  /\ UNCHANGED <<accountVars, serverVars, projects, schemaMappings, dataSources, jobs, nextJobId, jobLogs, now>>

\* processingJobs.findMany (first page), sendPaginated; the page is kept as
\* the set of its job objects
ListJobs_Find(r) ==
  /\ reqs[r].op = "list" /\ reqs[r].pc = "find"
  /\ reqs' = [reqs EXCEPT ![r] =
        [Finish(reqs[r], "200") EXCEPT
           !.body = [kind |-> "jobs",
                     jobs |-> {JobView(j) : j \in ListedJobs(reqs[r].projectId, reqs[r].statusFilter)},
                     totalCount |-> reqs[r].totalCount]]]
  /\ UNCHANGED <<accountVars, serverVars, projects, schemaMappings, dataSources, jobs, nextJobId, jobLogs, now>>

\* ------------------------------------- DELETE /schema-mappings/:mappingId
\* requireRole('admin'), the mapping query and the two checks
DeleteMapping_Check(org, role, m) ==
  LET q == [IdleReq EXCEPT !.op = "deleteMapping", !.schemaMappingId = m]
  IN IF role # "admin" THEN Finish(q, "Forbidden")
     ELSE IF m \notin DOMAIN schemaMappings THEN Finish(q, "NotFound")
     ELSE IF schemaMappings[m].organisationId # org THEN Finish(q, "Forbidden")
     ELSE [q EXCEPT !.pc = "delete"]

DeleteMapping_Begin(r) ==
  /\ Free(r)
  /\ \E org \in Orgs, role \in {"admin", "editor"}, m \in {1, 5} :
       reqs' = [reqs EXCEPT ![r] = DeleteMapping_Check(org, role, m)]
  /\ UNCHANGED <<accountVars, serverVars, projects, schemaMappings, dataSources, jobs, nextJobId, jobLogs, now>>

\* rows of processing_jobs left when mapping m is deleted: the foreign key
\* schema_mapping_id is declared onDelete: 'cascade'
JobsAfterMappingDelete(m) ==
  [j \in {k \in DOMAIN jobs : jobs[k].schemaMappingId # m} |-> jobs[j]]

\* delete from schema_mappings where id = mappingId, with the cascades to
\* processing_jobs and from there to job_logs; then sendNoContent
DeleteMapping_Delete(r) ==
  /\ reqs[r].op = "deleteMapping" /\ reqs[r].pc = "delete"
  /\ LET m == reqs[r].schemaMappingId
     IN /\ schemaMappings' = [k \in DOMAIN schemaMappings \ {m} |-> schemaMappings[k]]
        /\ jobs' = JobsAfterMappingDelete(m)
        /\ jobLogs' = SelectSeq(jobLogs, LAMBDA e : e.jobId \in DOMAIN JobsAfterMappingDelete(m))
  /\ reqs' = [reqs EXCEPT ![r] = Finish(reqs[r], "204")]
  /\ UNCHANGED <<accountVars, serverVars, projects, dataSources, nextJobId, now>>

\* data_sources.record_count of data source 1 is rewritten by the ingest
\* that fills the column (no route of the API writes it)
DataSource_RecordCountChanges ==
  /\ dataSources[1].recordCount # 5
  /\ dataSources' = [dataSources EXCEPT ![1].recordCount = 5]
  /\ UNCHANGED <<accountVars, serverVars, projects, schemaMappings, jobs, nextJobId, jobLogs, reqs, now>>

\* The job routes together with the operations on the rows they refer to,
\* over the first MaxApiReqs request slots.
ApiReqs == 1..MaxApiReqs

ApiNext ==
  \/ \E r \in ApiReqs : CreateJob_Begin(r)
  \/ \E r \in ApiReqs : CreateJob_FindMapping(r)
  \/ \E r \in ApiReqs : CreateJob_InsertJob(r)
  \/ \E r \in ApiReqs : CreateJob_InsertLog(r)
  \/ \E r \in ApiReqs : CreateJob_AutoStart(r)
  \/ \E r \in ApiReqs : CancelJob_Begin(r)
  \/ \E r \in ApiReqs : CancelJob_Update(r)
  \/ \E r \in ApiReqs : CancelJob_InsertLog(r)
  \/ \E r \in ApiReqs : RetryJob_Begin(r)
  \/ \E r \in ApiReqs : RetryJob_Reset(r)
  \/ \E r \in ApiReqs : RetryJob_InsertLog(r)
  \/ \E r \in ApiReqs : RetryJob_Start(r)
  \/ \E r \in ApiReqs : GetJob(r)
  \/ \E r \in ApiReqs : GetProgress(r)
  \/ \E r \in ApiReqs : GetLogs_Begin(r)
  \/ \E r \in ApiReqs : GetLogs_Count(r)
  \/ \E r \in ApiReqs : GetLogs_Find(r)
  \/ \E r \in ApiReqs : ListJobs_Begin(r)
  \/ \E r \in ApiReqs : ListJobs_Count(r)
  \/ \E r \in ApiReqs : ListJobs_Find(r)
  \/ \E r \in ApiReqs : DeleteMapping_Begin(r)
  \/ \E r \in ApiReqs : DeleteMapping_Delete(r)
  \/ DataSource_RecordCountChanges
  \/ Tick

ApiSpec == Init /\ [][ApiNext]_vars

\* ------------------------------------------------ polling of one job
\* values of progress and of inputRecordCount a polled job is given
PollProgress == {0, 1, 33, 50, 100}
PollCounts == {0, 3, 100}

\* a job row as a client may find it when it polls: progress is 0 while
\* pending and 100 once completed
PollJob(st, p, n) ==
  [SeedJob(st) EXCEPT !.progress = p, !.inputRecordCount = n]

PollInit ==
  /\ projects = InitProjects
  /\ schemaMappings = InitSchemaMappings
  /\ dataSources = InitDataSources
  /\ \E st \in JobStatuses, p \in PollProgress, n \in PollCounts :
       /\ st = "pending" => p = 0
       /\ st = "completed" => p = 100
       /\ jobs = (1 :> PollJob(st, p, n))
  /\ nextJobId = 2
  /\ jobLogs = <<LogRow(1, MsgCreated, 0)>>
  /\ reqs = [r \in Reqs |-> IdleReq]
  /\ now = 0
  /\ InitAccounts
  /\ InitServer

\* wall time passes between two polls
PollTick ==
  /\ now < MaxPollTicks * PollTickMs
  /\ now' = now + PollTickMs
  /\ UNCHANGED <<accountVars, serverVars, projects, schemaMappings, dataSources, jobs, nextJobId, jobLogs, reqs>>

PollNext ==
  \/ \E r \in Reqs : GetProgress(r)
  \/ PollTick

\* A client polls GET /:jobId/progress of one job while time passes and
\* nothing writes the job.
PollSpec == PollInit /\ [][PollNext]_vars

\* ------------------------------ POST /projects/:projectId/schema-mappings
\* requireRole and verifyProjectAccess: the request after them
CreateMapping_Check(org, role, p, d) ==
  LET q == [IdleReq EXCEPT !.op = "createMapping", !.organisationId = org,
                           !.projectId = p, !.dataSourceId = d]
  IN IF role \notin AllowedRoles THEN Finish(q, "Forbidden")
     ELSE IF verifyProjectAccess(p, org) # "ok"
     THEN Finish(q, verifyProjectAccess(p, org))
     ELSE [q EXCEPT !.pc = "findDataSource"]

CreateMapping_Begin(r) ==
  /\ Free(r)
  /\ \E org \in Orgs, role \in Roles, p \in ProjectIds, d \in 1..7 :
       reqs' = [reqs EXCEPT ![r] = CreateMapping_Check(org, role, p, d)]
  /\ UNCHANGED <<accountVars, serverVars, jobVars>>

\* FindDataSource without the comparison of the projects
FindDataSource_AnyProject(dataSourceId, projectId) ==
  {d \in DOMAIN dataSources : d = dataSourceId /\ dataSources[d].deletedAt = NULL}

\* dataSources.findFirst(where id = dataSourceId and projectId = projectId
\* and deletedAt is null)
FindDataSource(dataSourceId, projectId) ==
  {d \in DOMAIN dataSources :
     /\ d = dataSourceId
     /\ dataSources[d].projectId = projectId
     /\ dataSources[d].deletedAt = NULL}

\* the data source query and its check
CreateMapping_FindDataSource(r) ==
  /\ reqs[r].op = "createMapping" /\ reqs[r].pc = "findDataSource"
  /\ reqs' = [reqs EXCEPT ![r] =
        IF FindDataSource(reqs[r].dataSourceId, reqs[r].projectId) = {}
        THEN Finish(reqs[r], "NotFound")
        ELSE [reqs[r] EXCEPT !.pc = "findExisting"]]
  /\ UNCHANGED <<accountVars, serverVars, jobVars>>

\* schemaMappings.findFirst(where dataSourceId = dataSourceId)
MappingsOf(dataSourceId) ==
  {m \in DOMAIN schemaMappings : schemaMappings[m].dataSourceId = dataSourceId}

\* the query for an existing mapping and its check
CreateMapping_FindExisting(r) ==
  /\ reqs[r].op = "createMapping" /\ reqs[r].pc = "findExisting"
  /\ reqs' = [reqs EXCEPT ![r] =
        IF MappingsOf(reqs[r].dataSourceId) # {}
        THEN Finish(reqs[r], "Conflict")
        ELSE [reqs[r] EXCEPT !.pc = "insert"]]
  /\ UNCHANGED <<accountVars, serverVars, jobVars>>

\* the serial of schema_mappings.id (no mapping is deleted where mappings
\* are created, so it is one more than the greatest id in the table)
NextMappingId ==
  1 + CHOOSE m \in DOMAIN schemaMappings : \A k \in DOMAIN schemaMappings : k <= m

\* insert into schema_mappings ... returning, then sendCreated; the unique
\* constraint on data_source_id refuses a second mapping of the data source
\* and the error handler answers 409 CONFLICT
CreateMapping_Insert(r) ==
  /\ reqs[r].op = "createMapping" /\ reqs[r].pc = "insert"
  /\ LET q == reqs[r]
     IN IF MappingsOf(q.dataSourceId) # {}
        THEN /\ schemaMappings' = schemaMappings
             /\ reqs' = [reqs EXCEPT ![r] = Finish(q, "Conflict")]
        ELSE /\ schemaMappings' =
                  (NextMappingId :> [organisationId |-> q.organisationId,
                                     projectId |-> q.projectId,
                                     dataSourceId |-> q.dataSourceId,
                                     isActive |-> 1]) @@ schemaMappings
             /\ reqs' = [reqs EXCEPT ![r] = Finish(q, "201")]
  /\ UNCHANGED <<accountVars, serverVars, projects, dataSources, jobs, nextJobId, jobLogs, now>>

\* Schema mappings are created and jobs are created from them.
MappingNext ==
  \/ \E r \in Reqs : CreateMapping_Begin(r)
  \/ \E r \in Reqs : CreateMapping_FindDataSource(r)
  \/ \E r \in Reqs : CreateMapping_FindExisting(r)
  \/ \E r \in Reqs : CreateMapping_Insert(r)
  \/ \E r \in Reqs : CreateJob_Begin(r)
  \/ \E r \in Reqs : CreateJob_FindMapping(r)
  \/ \E r \in Reqs : CreateJob_InsertJob(r)
  \/ \E r \in Reqs : CreateJob_InsertLog(r)
  \/ \E r \in Reqs : CreateJob_AutoStart(r)

MappingSpec == Init /\ [][MappingNext]_vars

\* ------------------------------------------------------- errorHandler
\* An error reaching the global handler: whether it is an AppError, its
\* name, its message (a string, kept as the sequence of its parts so that
\* String.includes is a search for a part), and statusCode and code of an
\* AppError, code of a MulterError.
Thrown(isAppError, name, message, statusCode, code) ==
  [isAppError |-> isAppError, name |-> name, message |-> message,
   statusCode |-> statusCode, code |-> code]

Errors ==
  { Thrown(TRUE, "Error", <<"Job not found">>, 404, "NOT_FOUND"),
    Thrown(TRUE, "Error", <<"Email already registered">>, 409, "DUPLICATE_EMAIL"),
    Thrown(TRUE, "Error", <<"row violates", "unique constraint", "users_email_unique">>, 500, "INTERNAL_ERROR"),
    Thrown(FALSE, "ZodError", <<"invalid_type at schemaMappingId">>, 0, NONE),
    Thrown(FALSE, "JsonWebTokenError", <<"jwt malformed">>, 0, NONE),
    Thrown(FALSE, "TokenExpiredError", <<"jwt expired">>, 0, NONE),
    Thrown(FALSE, "MulterError", <<"File too large">>, 0, "LIMIT_FILE_SIZE"),
    Thrown(FALSE, "MulterError", <<"Too many files">>, 0, "LIMIT_FILE_COUNT"),
    Thrown(FALSE, "MulterError", <<"Unexpected field">>, 0, "LIMIT_UNEXPECTED_FILE"),
    Thrown(FALSE, "Error", <<"duplicate key value violates", "unique constraint", "users_email_unique">>, 0, NONE),
    Thrown(FALSE, "Error", <<"insert on job_logs violates", "foreign key constraint", "job_logs_job_id_fk">>, 0, NONE),
    Thrown(FALSE, "Error", <<"connect ECONNREFUSED 10.0.0.5:5432">>, 0, NONE),
    Thrown(FALSE, "TypeError", <<"Cannot read properties of undefined">>, 0, NONE) }

\* values of process.env.NODE_ENV (NONE: not set)
NodeEnvs == {"production", "development", "test", NONE}

\* err.message?.includes(part)
Includes(message, part) == \E i \in 1..Len(message) : message[i] = part

\* the body sendError writes: status and { error: { code, message } }
ErrorBody(statusCode, code, message) ==
  [kind |-> "error", status |-> statusCode, code |-> code, message |-> message]

MsgUnexpected == <<"An unexpected error occurred">>

\* errorHandler: the response it sends for err when NODE_ENV is env
errorHandler(err, env) ==
  IF err.isAppError THEN ErrorBody(err.statusCode, err.code, err.message)
  ELSE IF err.name = "ZodError" THEN ErrorBody(400, "VALIDATION_ERROR", <<"Validation failed">>)
  ELSE IF err.name = "JsonWebTokenError"
  THEN ErrorBody(401, "UNAUTHORIZED", <<"Invalid authentication token">>)
  ELSE IF err.name = "TokenExpiredError"
  THEN ErrorBody(401, "UNAUTHORIZED", <<"Authentication token expired">>)
  ELSE IF err.name = "MulterError"
  THEN ErrorBody(400, "VALIDATION_ERROR",
                 IF err.code = "LIMIT_FILE_SIZE" THEN <<"File too large (max 100MB)">>
                 ELSE IF err.code = "LIMIT_FILE_COUNT" THEN <<"Too many files">>
                 ELSE <<"File upload error">>)
  ELSE IF Includes(err.message, "unique constraint")
  THEN ErrorBody(409, "CONFLICT", <<"Resource already exists">>)
  ELSE IF Includes(err.message, "foreign key constraint")
  THEN ErrorBody(400, "VALIDATION_ERROR", <<"Referenced resource does not exist">>)
  ELSE ErrorBody(500, "INTERNAL_ERROR",
                 IF env = "development" THEN err.message ELSE MsgUnexpected)

\* a request whose handler throws err: asyncHandler passes it to the global
\* handler, which answers
HandleError(r) ==
  /\ Free(r)
  /\ \E err \in Errors :
       reqs' = [reqs EXCEPT ![r] =
          [op |-> "error", pc |-> "done", result |-> "error",
           thrown |-> err, body |-> errorHandler(err, nodeEnv)]]
  /\ UNCHANGED <<accountVars, serverVars, jobVars>>

\* the server is started under some NODE_ENV
ErrorInit ==
  /\ projects = InitProjects
  /\ schemaMappings = InitSchemaMappings
  /\ dataSources = InitDataSources
  /\ jobs = <<>>
  /\ nextJobId = 1
  /\ jobLogs = <<>>
  /\ reqs = [r \in Reqs |-> IdleReq]
  /\ now = 0
  /\ InitAccounts
  /\ rateStore = <<>>
  /\ nodeEnv \in NodeEnvs

ErrorNext == \E r \in Reqs : HandleError(r)

\* Handlers throw and the global handler answers.
ErrorSpec == ErrorInit /\ [][ErrorNext]_vars

\* ------------------------------------------------------ processingLimiter
\* windowMs and max of processingLimiter
RateWindowMs == 60000
RateMax == 10

\* the callers the limiter tells apart (its key is the address of the client)
Callers == {"a", "b"}

\* the entry of a key that has no hit in a running window
NoHits(t) == [hits |-> 0, resetTime |-> t + RateWindowMs, reached |-> 0]

\* the entry of key at time t: hits counts the requests of the running
\* window, resetTime is its end; reached counts the requests of the window
\* that were passed on to the handler
RateEntry(key, t) ==
  IF key \in DOMAIN rateStore /\ rateStore[key].resetTime > t
  THEN rateStore[key]
  ELSE NoHits(t)

\* RateAllows that lets a request through while the hits before it are
\* not above max
RateAllows_OneMore(key, t) == RateEntry(key, t).hits <= RateMax

\* the limiter counts the request and lets it through while the count is
\* not above max
RateAllows(key, t) == RateEntry(key, t).hits + 1 <= RateMax

\* the store after the request of key at time t
RateCount(key, t) ==
  (key :> [RateEntry(key, t) EXCEPT
             !.hits = @ + 1,
             !.reached = IF RateAllows(key, t) THEN @ + 1 ELSE @]) @@ rateStore

\* the requests the limiter has counted in the windows that run at time t
HitsInWindow(t) ==
  LET h(key) == RateEntry(key, t).hits
  IN h("a") + h("b")

\* POST /projects/:projectId/jobs with its whole middleware chain:
\* requireRole, processingLimiter, then the handler up to verifyProjectAccess
CreateJob_Limited(r) ==
  /\ Free(r)
  /\ \E key \in Callers, org \in {1}, role \in Roles, p \in {1, 3}, m \in {1, 5} :
       IF role \notin AllowedRoles
       THEN /\ reqs' = [reqs EXCEPT ![r] = CreateJob_Check(org, role, p, m)]
            /\ rateStore' = rateStore
       ELSE /\ HitsInWindow(now) < MaxHits
            /\ RateAllows(key, now) => nextJobId + Cardinality(InFlightCreates) <= MaxRateJobs
            /\ rateStore' = RateCount(key, now)
            /\ reqs' = [reqs EXCEPT ![r] =
                 IF RateAllows(key, now)
                 THEN CreateJob_Check(org, role, p, m)
                 ELSE Finish([IdleReq EXCEPT !.op = "create"], "RateLimitExceeded")]
  /\ UNCHANGED <<accountVars, nodeEnv, jobVars>>

\* the response has been sent and the connection is closed
Release(r) ==
  /\ reqs[r].pc = "done"
  /\ reqs' = [reqs EXCEPT ![r] = IdleReq]
  /\ UNCHANGED <<accountVars, serverVars, jobVars>>

\* wall time passes by half a window
RateTick ==
  /\ now < MaxRateTicks * (RateWindowMs \div 2)
  /\ now' = now + (RateWindowMs \div 2)
  /\ UNCHANGED <<accountVars, serverVars, projects, schemaMappings, dataSources, jobs,
                 nextJobId, jobLogs, reqs>>

RateInit ==
  /\ projects = InitProjects
  /\ schemaMappings = InitSchemaMappings
  /\ dataSources = InitDataSources
  /\ jobs = <<>>
  /\ nextJobId = 1
  /\ jobLogs = <<>>
  /\ reqs = [r \in Reqs |-> IdleReq]
  /\ now = 0
  /\ InitAccounts
  /\ InitServer

\* the limiter counts within one synchronous step, so that the requests
\* are taken one after another, through the first request slot
RateReqs == {1}

RateNext ==
  \/ \E r \in RateReqs : CreateJob_Limited(r)
  \/ \E r \in RateReqs : CreateJob_FindMapping(r)
  \/ \E r \in RateReqs : CreateJob_InsertJob(r)
  \/ \E r \in RateReqs : CreateJob_InsertLog(r)
  \/ \E r \in RateReqs : CreateJob_AutoStart(r)
  \/ \E r \in RateReqs : Release(r)
  \/ RateTick

\* Job creation behind its rate limiter, one request after another.
RateSpec == RateInit /\ [][RateNext]_vars

\* ------------------------------------------------ the API on an empty store
\* a database that holds no job yet
EmptyInit ==
  /\ projects = InitProjects
  /\ schemaMappings = InitSchemaMappings
  /\ dataSources = InitDataSources
  /\ jobs = <<>>
  /\ nextJobId = 1
  /\ jobLogs = <<>>
  /\ reqs = [r \in Reqs |-> IdleReq]
  /\ now = 0
  /\ InitAccounts
  /\ InitServer

\* create, cancel and retry requests on that store; of retry only the
\* checks, which let no request through to its writes here
EmptyNext ==
  \/ \E r \in Reqs : CreateJob_Begin(r)
  \/ \E r \in Reqs : CreateJob_FindMapping(r)
  \/ \E r \in Reqs : CreateJob_InsertJob(r)
  \/ \E r \in Reqs : CreateJob_InsertLog(r)
  \/ \E r \in Reqs : CreateJob_AutoStart(r)
  \/ \E r \in Reqs : CancelJob_Begin(r)
  \/ \E r \in Reqs : CancelJob_Update(r)
  \/ \E r \in Reqs : CancelJob_InsertLog(r)
  \/ \E r \in Reqs : RetryJob_Begin(r)
  \/ Tick

EmptySpec == EmptyInit /\ [][EmptyNext]_vars

\* ------------------------------------------------------ POST /auth/login
\* the role claim login signs for user u: the role of the team member row,
\* or users.role when there is none
LoginRole(u) ==
  IF u \in DOMAIN teamMembers /\ teamMembers[u].organisationId = users[u].organisationId
  THEN teamMembers[u].role
  ELSE users[u].role

\* an active user logs in and is given a token with the present role
Login(u) ==
  /\ u \in DOMAIN users /\ users[u].status = "active"
  /\ tokens' = tokens \cup {[userId |-> u, organisationId |-> users[u].organisationId,
                             role |-> LoginRole(u)]}
  /\ tokens' # tokens
  /\ UNCHANGED <<teamMembers, users, invitations, serverVars, jobVars, reqs>>

\* teamMembers.findFirst(where userId = userId and organisationId = organisationId)
FindMember(userId, organisationId) ==
  {u \in DOMAIN teamMembers : u = userId /\ teamMembers[u].organisationId = organisationId}

\* admins of an organisation, without the user `except`
AdminsOf(organisationId, except) ==
  {u \in DOMAIN teamMembers :
     /\ teamMembers[u].organisationId = organisationId
     /\ teamMembers[u].role = "admin"
     /\ u # except}

\* -------------------------------------- PATCH /organisations/members/:userId
\* requireRole('admin') on the claims of the token, then the check of the role
UpdateRole_Check(tok, userId, role) ==
  LET q == [op |-> "updateRole", pc |-> "idle", result |-> "none",
            organisationId |-> tok.organisationId, currentUserId |-> tok.userId,
            userId |-> userId, role |-> role]
  IN IF tok.role # "admin" THEN Finish(q, "Forbidden")
     ELSE IF role \notin {"admin", "editor", "viewer"} THEN Finish(q, "BadRequest")
     ELSE [q EXCEPT !.pc = "findMember"]

UpdateRole_Begin(r) ==
  /\ Free(r)
  /\ \E tok \in tokens, userId \in 1..5, role \in {"admin", "editor", "owner"} :
       reqs' = [reqs EXCEPT ![r] = UpdateRole_Check(tok, userId, role)]
  /\ UNCHANGED <<accountVars, serverVars, jobVars>>

\* the member query; the other admins are counted only when an admin takes
\* the admin role from itself
UpdateRole_FindMember(r) ==
  /\ reqs[r].op = "updateRole" /\ reqs[r].pc = "findMember"
  /\ LET q == reqs[r]
     IN reqs' = [reqs EXCEPT ![r] =
          IF FindMember(q.userId, q.organisationId) = {} THEN Finish(q, "NotFound")
          ELSE IF q.userId = q.currentUserId /\ teamMembers[q.userId].role = "admin"
                  /\ q.role # "admin"
          THEN [q EXCEPT !.pc = "countAdmins"]
          ELSE [q EXCEPT !.pc = "update"]]
  /\ UNCHANGED <<accountVars, serverVars, jobVars>>

\* select count(*) of the other admins of the organisation
UpdateRole_CountAdmins(r) ==
  /\ reqs[r].op = "updateRole" /\ reqs[r].pc = "countAdmins"
  /\ reqs' = [reqs EXCEPT ![r] =
        IF AdminsOf(reqs[r].organisationId, reqs[r].userId) = {}
        THEN Finish(reqs[r], "BadRequest")
        ELSE [reqs[r] EXCEPT !.pc = "update"]]
  /\ UNCHANGED <<accountVars, serverVars, jobVars>>

\* update team_members set role = ... where id = member.id returning; when
\* the row is gone `updated` is undefined and the handler throws
UpdateRole_Update(r) ==
  /\ reqs[r].op = "updateRole" /\ reqs[r].pc = "update"
  /\ IF reqs[r].userId \in DOMAIN teamMembers
     THEN /\ teamMembers' = [teamMembers EXCEPT ![reqs[r].userId].role = reqs[r].role]
          /\ reqs' = [reqs EXCEPT ![r] = Finish(reqs[r], "200")]
     ELSE /\ teamMembers' = teamMembers
          /\ reqs' = [reqs EXCEPT ![r] = Finish(reqs[r], "InternalError")]
  /\ UNCHANGED <<tokens, users, invitations, serverVars, jobVars>>

\* ------------------------------------- DELETE /organisations/members/:userId
\* requireRole('admin') on the claims of the token, then the check for self
RemoveMember_Check(tok, userId) ==
  LET q == [op |-> "removeMember", pc |-> "idle", result |-> "none",
            organisationId |-> tok.organisationId, currentUserId |-> tok.userId,
            userId |-> userId]
  IN IF tok.role # "admin" THEN Finish(q, "Forbidden")
     ELSE IF userId = tok.userId THEN Finish(q, "BadRequest")
     ELSE [q EXCEPT !.pc = "findMember"]

RemoveMember_Begin(r) ==
  /\ Free(r)
  /\ \E tok \in tokens, userId \in 1..5 :
       reqs' = [reqs EXCEPT ![r] = RemoveMember_Check(tok, userId)]
  /\ UNCHANGED <<accountVars, serverVars, jobVars>>

\* the member query; the admins are counted when the member is an admin
RemoveMember_FindMember(r) ==
  /\ reqs[r].op = "removeMember" /\ reqs[r].pc = "findMember"
  /\ LET q == reqs[r]
     IN reqs' = [reqs EXCEPT ![r] =
          IF FindMember(q.userId, q.organisationId) = {} THEN Finish(q, "NotFound")
          ELSE IF teamMembers[q.userId].role = "admin"
          THEN [q EXCEPT !.pc = "countAdmins"]
          ELSE [q EXCEPT !.pc = "delete"]]
  /\ UNCHANGED <<accountVars, serverVars, jobVars>>

\* select count(*) of the admins of the organisation
RemoveMember_CountAdmins(r) ==
  /\ reqs[r].op = "removeMember" /\ reqs[r].pc = "countAdmins"
  /\ reqs' = [reqs EXCEPT ![r] =
        IF Cardinality(AdminsOf(reqs[r].organisationId, 0)) <= 1
        THEN Finish(reqs[r], "BadRequest")
        ELSE [reqs[r] EXCEPT !.pc = "delete"]]
  /\ UNCHANGED <<accountVars, serverVars, jobVars>>

\* delete from team_members where id = member.id
RemoveMember_Delete(r) ==
  /\ reqs[r].op = "removeMember" /\ reqs[r].pc = "delete"
  /\ teamMembers' = [u \in DOMAIN teamMembers \ {reqs[r].userId} |-> teamMembers[u]]
  /\ reqs' = [reqs EXCEPT ![r].pc = "updateUser"]
  /\ UNCHANGED <<tokens, users, invitations, serverVars, jobVars>>

\* update users set status = 'removed' where id = userId, then sendNoContent
RemoveMember_UpdateUser(r) ==
  /\ reqs[r].op = "removeMember" /\ reqs[r].pc = "updateUser"
  /\ users' = [users EXCEPT ![reqs[r].userId].status = "removed"]
  /\ reqs' = [reqs EXCEPT ![r] = Finish(reqs[r], "204")]
  /\ UNCHANGED <<teamMembers, tokens, invitations, serverVars, jobVars>>

\* Members log in, and admins change roles and remove members.
MemberNext ==
  \/ \E u \in 1..4 : Login(u)
  \/ \E r \in Reqs : UpdateRole_Begin(r)
  \/ \E r \in Reqs : UpdateRole_FindMember(r)
  \/ \E r \in Reqs : UpdateRole_CountAdmins(r)
  \/ \E r \in Reqs : UpdateRole_Update(r)
  \/ \E r \in Reqs : RemoveMember_Begin(r)
  \/ \E r \in Reqs : RemoveMember_FindMember(r)
  \/ \E r \in Reqs : RemoveMember_CountAdmins(r)
  \/ \E r \in Reqs : RemoveMember_Delete(r)
  \/ \E r \in Reqs : RemoveMember_UpdateUser(r)

MemberSpec == EmptyInit /\ [][MemberNext]_vars

\* ------------------------------------------------------------ invitations
\* invitations.findFirst(where token = token and expiresAt >= now and
\* acceptedAt is null)
FindInvitation(token, t) ==
  {k \in DOMAIN invitations :
     /\ k = token
     /\ invitations[k].expiresAt >= t
     /\ invitations[k].acceptedAt = NULL}

\* users.findFirst(where email = email)
UsersWithEmail(email) == {u \in DOMAIN users : users[u].email = email}

\* insert into users ... returning, for the invitation the request holds;
\* the unique constraint on email refuses a second row of the address and
\* the error handler answers 409 CONFLICT
Invited_InsertUser(r, op) ==
  /\ reqs[r].op = op /\ reqs[r].pc = "insertUser"
  /\ LET q == reqs[r]
         inv == invitations[q.token]
     IN IF UsersWithEmail(q.email) # {}
        THEN /\ users' = users
             /\ reqs' = [reqs EXCEPT ![r] = Finish(q, "Conflict")]
        ELSE /\ users' = Append(users, UserRow(q.email, inv.organisationId, inv.invitedBy))
             /\ reqs' = [reqs EXCEPT ![r] = [q EXCEPT !.pc = "insertMember",
                                                     !.userId = Len(users) + 1]]
  /\ UNCHANGED <<teamMembers, tokens, invitations, serverVars, jobVars>>

\* insert into team_members: the new user with the role of the invitation
Invited_InsertMember(r, op) ==
  /\ reqs[r].op = op /\ reqs[r].pc = "insertMember"
  /\ teamMembers' =
       (reqs[r].userId :> [organisationId |-> invitations[reqs[r].token].organisationId,
                           role |-> invitations[reqs[r].token].role]) @@ teamMembers
  /\ reqs' = [reqs EXCEPT ![r].pc = "markAccepted"]
  /\ UNCHANGED <<tokens, users, invitations, serverVars, jobVars>>

\* signToken for the new user, then sendCreated
Invited_Respond(q) ==
  /\ tokens' = tokens \cup
       {[userId |-> q.userId, organisationId |-> invitations[q.token].organisationId,
         role |-> invitations[q.token].role]}

\* ----------------------------------- POST /auth/register with inviteToken
\* the query for a user of the address and its check
Register_Check(email, token) ==
  LET q == [op |-> "register", pc |-> "idle", result |-> "none",
            email |-> email, token |-> token, userId |-> 0]
  IN IF UsersWithEmail(email) # {} THEN Finish(q, "Conflict")
     ELSE [q EXCEPT !.pc = "findInvitation"]

Register_Begin(r) ==
  /\ Free(r)
  /\ \E email \in {"invited", "other", "member"}, token \in {"open", "used", "bogus"} :
       reqs' = [reqs EXCEPT ![r] = Register_Check(email, token)]
  /\ UNCHANGED <<accountVars, serverVars, jobVars>>

\* the invitation query and its check
Register_FindInvitation(r) ==
  /\ reqs[r].op = "register" /\ reqs[r].pc = "findInvitation"
  /\ reqs' = [reqs EXCEPT ![r] =
        IF FindInvitation(reqs[r].token, now) = {} THEN Finish(reqs[r], "Gone")
        ELSE [reqs[r] EXCEPT !.pc = "insertUser"]]
  /\ UNCHANGED <<accountVars, serverVars, jobVars>>

Register_InsertUser(r) == Invited_InsertUser(r, "register")

Register_InsertMember(r) == Invited_InsertMember(r, "register")

\* update invitations set acceptedAt = new Date() where id = invitation.id
Register_MarkAccepted(r) ==
  /\ reqs[r].op = "register" /\ reqs[r].pc = "markAccepted"
  /\ invitations' = [invitations EXCEPT ![reqs[r].token].acceptedAt = now]
  /\ reqs' = [reqs EXCEPT ![r].pc = "findOrganisation"]
  /\ UNCHANGED <<teamMembers, tokens, users, serverVars, jobVars>>

\* the organisation query, signToken and sendCreated
Register_FindOrganisation(r) ==
  /\ reqs[r].op = "register" /\ reqs[r].pc = "findOrganisation"
  /\ Invited_Respond(reqs[r])
  /\ reqs' = [reqs EXCEPT ![r] = Finish(reqs[r], "201")]
  /\ UNCHANGED <<teamMembers, users, invitations, serverVars, jobVars>>

\* --------------------------------------- POST /invitations/:token/accept
\* the invitation query and its check
Accept_Check(token, t) ==
  LET q == [op |-> "accept", pc |-> "idle", result |-> "none",
            email |-> NONE, token |-> token, userId |-> 0]
  IN IF FindInvitation(token, t) = {} THEN Finish(q, "Gone")
     ELSE [q EXCEPT !.pc = "findUser", !.email = invitations[token].email]

Accept_Begin(r) ==
  /\ Free(r)
  /\ \E token \in {"open", "used", "bogus"} :
       reqs' = [reqs EXCEPT ![r] = Accept_Check(token, now)]
  /\ UNCHANGED <<accountVars, serverVars, jobVars>>

\* the query for a user of the invited address and its check
Accept_FindUser(r) ==
  /\ reqs[r].op = "accept" /\ reqs[r].pc = "findUser"
  /\ reqs' = [reqs EXCEPT ![r] =
        IF UsersWithEmail(reqs[r].email) # {} THEN Finish(reqs[r], "Conflict")
        ELSE [reqs[r] EXCEPT !.pc = "insertUser"]]
  /\ UNCHANGED <<accountVars, serverVars, jobVars>>

Accept_InsertUser(r) == Invited_InsertUser(r, "accept")

Accept_InsertMember(r) == Invited_InsertMember(r, "accept")

\* update invitations set acceptedAt = new Date(), signToken, sendCreated
Accept_MarkAccepted(r) ==
  /\ reqs[r].op = "accept" /\ reqs[r].pc = "markAccepted"
  /\ invitations' = [invitations EXCEPT ![reqs[r].token].acceptedAt = now]
  /\ Invited_Respond(reqs[r])
  /\ reqs' = [reqs EXCEPT ![r] = Finish(reqs[r], "201")]
  /\ UNCHANGED <<teamMembers, users, serverVars, jobVars>>

\* wall time passes
InviteTick ==
  /\ now < MaxTime
  /\ now' = now + 1
  /\ UNCHANGED <<accountVars, serverVars, projects, schemaMappings, dataSources, jobs,
                 nextJobId, jobLogs, reqs>>

\* Invitations are used, by registration and by acceptance.
InviteNext ==
  \/ \E r \in Reqs : Register_Begin(r)
  \/ \E r \in Reqs : Register_FindInvitation(r)
  \/ \E r \in Reqs : Register_InsertUser(r)
  \/ \E r \in Reqs : Register_InsertMember(r)
  \/ \E r \in Reqs : Register_MarkAccepted(r)
  \/ \E r \in Reqs : Register_FindOrganisation(r)
  \/ \E r \in Reqs : Accept_Begin(r)
  \/ \E r \in Reqs : Accept_FindUser(r)
  \/ \E r \in Reqs : Accept_InsertUser(r)
  \/ \E r \in Reqs : Accept_InsertMember(r)
  \/ \E r \in Reqs : Accept_MarkAccepted(r)
  \/ InviteTick

InviteSpec == EmptyInit /\ [][InviteNext]_vars

TypeOK ==
  /\ \A j \in DOMAIN jobs : jobs[j].status \in JobStatuses
  /\ nextJobId \in 1..(MaxJobs + 1)
  /\ now \in 0..(MaxTime + MaxPollTicks * PollTickMs)


\* ======================================================================
\* Properties
\* ======================================================================

\* request r takes a step
Steps(r) == reqs'[r] # reqs[r]

\* r is a request of kind op that was received in this step
Received(r, op) == reqs[r].pc = "idle" /\ reqs'[r].op = op

\* the caller passes requireRole and belongs to the organisation of job j
Authorised(org, role, j) ==
  role \in {"admin", "editor"} /\ org = jobs[j].organisationId

\* C1: in every reachable state each job has completedAt non-null exactly
\* when its status is completed, failed or cancelled.
C1_CompletedAtIffTerminal ==
  \A j \in DOMAIN jobs :
    (jobs[j].completedAt # NULL) <=> (jobs[j].status \in {"completed", "failed", "cancelled"})

LegalTransitions ==
  { <<"pending", "processing">>, <<"processing", "completed">>,
    <<"processing", "failed">>, <<"pending", "cancelled">>,
    <<"processing", "cancelled">>, <<"failed", "pending">> }

\* C2: every change of a job's status is one of the legal transitions; in
\* particular a cancelled or completed job never changes status again.
C2_OnlyLegalTransitions ==
  [][\A j \in DOMAIN jobs :
       j \in DOMAIN jobs' =>
         \/ jobs'[j].status = jobs[j].status
         \/ <<jobs[j].status, jobs'[j].status>> \in LegalTransitions]_vars

\* C3: in every reachable state, a cancel of a completed, failed or cancelled
\* job is answered at once, with BadRequest for an authorised caller
\* (Forbidden for any other), and a cancel goes on to its update only for a
\* pending or processing job; a cancel that is refused writes neither the job
\* table nor the log, and a cancel writes or answers 200 only when the status
\* it read was pending or processing.
C3_CancelOnlyPendingOrProcessing ==
  /\ [](\A org \in Orgs, role \in Roles, j \in DOMAIN jobs :
          LET q == CancelJob_Check(org, role, j)
              st == jobs[j].status
          IN /\ q.pc = "update" => st \in {"pending", "processing"}
             /\ q.result = "BadRequest" => st \in {"completed", "failed", "cancelled"}
             /\ st \in {"completed", "failed", "cancelled"} =>
                  /\ q.pc = "done"
                  /\ q.result = IF Authorised(org, role, j) THEN "BadRequest" ELSE "Forbidden")
  /\ [][\A r \in Reqs :
          /\ (Received(r, "cancel") /\ reqs'[r].pc = "done") =>
               /\ reqs'[r].result \in {"BadRequest", "Forbidden", "NotFound"}
               /\ jobs' = jobs
               /\ jobLogs' = jobLogs
          /\ (reqs[r].op = "cancel" /\ Steps(r) /\ (jobs' # jobs \/ jobLogs' # jobLogs)) =>
               reqs[r].jobStatus \in {"pending", "processing"}
          /\ (reqs'[r].op = "cancel" /\ Steps(r) /\ reqs'[r].result = "200") =>
               reqs[r].jobStatus \in {"pending", "processing"}]_vars

\* C3 witness: the only job is completed, a cancel was refused with
\* BadRequest, and the job row and its log are as they were.
C3_Witness ==
  /\ \E r \in Reqs : reqs[r].op = "cancel" /\ reqs[r].result = "BadRequest"
  /\ jobs = (1 :> SeedJob("completed"))
  /\ jobLogs = <<LogRow(1, MsgCreated, 0)>>

\* C4: in every reachable state, a retry of a job that is not failed is
\* answered at once, with BadRequest for an authorised caller (Forbidden for
\* any other), and a retry goes on to its reset only for a failed job; a
\* retry that is refused writes neither the job table nor the log, and a
\* retry writes or answers 200 only when the status it read was failed.
C4_RetryOnlyFailed ==
  /\ [](\A org \in Orgs, role \in Roles, j \in DOMAIN jobs :
          LET q == RetryJob_Check(org, role, j)
              st == jobs[j].status
          IN /\ q.pc = "reset" => st = "failed"
             /\ q.result = "BadRequest" => st # "failed"
             /\ st # "failed" =>
                  /\ q.pc = "done"
                  /\ q.result = IF Authorised(org, role, j) THEN "BadRequest" ELSE "Forbidden")
  /\ [][\A r \in Reqs :
          /\ (Received(r, "retry") /\ reqs'[r].pc = "done") =>
               /\ reqs'[r].result \in {"BadRequest", "Forbidden", "NotFound"}
               /\ jobs' = jobs
               /\ jobLogs' = jobLogs
          /\ (reqs[r].op = "retry" /\ Steps(r) /\ (jobs' # jobs \/ jobLogs' # jobLogs)) =>
               reqs[r].jobStatus = "failed"
          /\ (reqs'[r].op = "retry" /\ Steps(r) /\ reqs'[r].result = "200") =>
               reqs[r].jobStatus = "failed"]_vars

\* C4 witness: the only job is processing, a retry was refused with
\* BadRequest, and the job row and its log are as they were.
C4_Witness ==
  /\ \E r \in Reqs : reqs[r].op = "retry" /\ reqs[r].result = "BadRequest"
  /\ jobs = (1 :> SeedJob("processing"))
  /\ jobLogs = <<LogRow(1, MsgCreated, 0)>>

\* the status a request takes the job to have when it writes: the one it
\* read, or 'pending' once it has itself inserted or reset the row
ExpectedStatus(q) ==
  IF q.pc \in {"update", "reset"} THEN q.jobStatus ELSE "pending"

\* C5: every status-changing write (cancel, the retry reset, the start of
\* create and of retry) happens only while the job's status is still the one
\* the operation read or last wrote; a stale operation writes nothing.
C5_WriteValidatesStatus ==
  [][\A r \in Reqs :
       (/\ reqs[r].pc \in {"update", "reset", "autoStart", "start"}
        /\ Steps(r)
        /\ reqs[r].jobId \in DOMAIN jobs
        /\ jobs[reqs[r].jobId].status # ExpectedStatus(reqs[r]))
       => jobs' = jobs]_vars

\* C6: a start step (of create or of retry) that finds the job already
\* processing, because another attempt has started it, changes nothing.
C6_SecondStartIsNoOp ==
  [][\A r \in Reqs :
       (/\ reqs[r].pc \in {"autoStart", "start"}
        /\ Steps(r)
        /\ reqs[r].jobId \in DOMAIN jobs
        /\ jobs[reqs[r].jobId].status = "processing")
       => jobs' = jobs]_vars

\* C7: retry of a failed job keeps the set of job rows, its reset leaves the
\* job pending, and when it returns the job is processing with errorMessage,
\* outputRecordCount, piiDetectedCount and completedAt null, progress 0,
\* startedAt set and currentStage 'initializing'.
C7_RetryPostcondition ==
  [][\A r \in Reqs :
       (reqs[r].op = "retry" /\ Steps(r) /\ reqs[r].jobId \in DOMAIN jobs) =>
          LET j == reqs[r].jobId
          IN /\ DOMAIN jobs' = DOMAIN jobs
             /\ reqs[r].pc = "reset" => jobs'[j].status = "pending"
             /\ reqs[r].pc = "start" =>
                  /\ reqs'[r].result = "200"
                  /\ jobs'[j].status = "processing"
                  /\ jobs'[j].errorMessage = NONE
                  /\ jobs'[j].outputRecordCount = NULL
                  /\ jobs'[j].piiDetectedCount = NULL
                  /\ jobs'[j].completedAt = NULL
                  /\ jobs'[j].progress = 0
                  /\ jobs'[j].startedAt # NULL
                  /\ jobs'[j].currentStage = "initializing"]_vars

\* C8: the update of a cancel sets status to cancelled and completedAt to a
\* value, changes no other field of the job (the row's modification stamp
\* updatedAt apart), no other job and no log; the
\* insert that follows appends one 'Job cancelled by user' entry for that job
\* and changes no job; a cancel writes nothing else.
C8_CancelFrame ==
  [][\A r \in Reqs :
       (reqs[r].op = "cancel" /\ Steps(r) /\ reqs[r].jobId \in DOMAIN jobs) =>
          LET j == reqs[r].jobId
          IN /\ reqs[r].pc = "update" =>
                  /\ reqs'[r].pc = "insertLog"
                  /\ DOMAIN jobs' = DOMAIN jobs
                  /\ jobs'[j].status = "cancelled"
                  /\ jobs'[j].completedAt # NULL
                  /\ [jobs'[j] EXCEPT !.status = "x", !.completedAt = 0, !.updatedAt = 0]
                       = [jobs[j] EXCEPT !.status = "x", !.completedAt = 0, !.updatedAt = 0]
                  /\ \A k \in DOMAIN jobs \ {j} : jobs'[k] = jobs[k]
                  /\ jobLogs' = jobLogs
             /\ reqs[r].pc = "insertLog" =>
                  /\ reqs'[r].result = "200"
                  /\ jobs' = jobs
                  /\ Len(jobLogs') = Len(jobLogs) + 1
                  /\ SubSeq(jobLogs', 1, Len(jobLogs)) = jobLogs
                  /\ jobLogs'[Len(jobLogs')].jobId = j
                  /\ jobLogs'[Len(jobLogs')].message = "Job cancelled by user"
             /\ reqs[r].pc \notin {"update", "insertLog"} =>
                  jobs' = jobs /\ jobLogs' = jobLogs]_vars

\* C8 witness: a cancel has returned 200 while two jobs exist; job 1, which
\* was processing, is cancelled with completedAt set, keeps its progress,
\* stage, start time and counts, and has one 'Job cancelled by user' entry.
C8_Witness ==
  /\ \E r \in Reqs : reqs[r].op = "cancel" /\ reqs[r].result = "200"
  /\ Cardinality(DOMAIN jobs) >= 2
  /\ jobs[1].status = "cancelled"
  /\ jobs[1].completedAt # NULL
  /\ [jobs[1] EXCEPT !.status = "processing", !.completedAt = NULL, !.updatedAt = 0]
       = SeedJob("processing")
  /\ Len(SelectSeq(LogsOf(1), LAMBDA e : e.message = MsgCancelled)) = 1

\* the schema mapping row exists and belongs to the project
MappingInProject(m, p) == m \in DOMAIN schemaMappings /\ schemaMappings[m].projectId = p

C10_CreateInsertsThenStarts ==
  [][\A r \in Reqs :
       (reqs[r].op = "create" /\ Steps(r)) =>
          /\ reqs[r].pc = "insertJob" =>
               LET j == reqs'[r].jobId
                   ds == schemaMappings[reqs[r].schemaMappingId].dataSourceId
               IN /\ j \notin DOMAIN jobs
                  /\ DOMAIN jobs' = DOMAIN jobs \cup {j}
                  /\ \A k \in DOMAIN jobs : jobs'[k] = jobs[k]
                  /\ jobs'[j].status = "pending"
                  /\ jobs'[j].progress = 0
                  /\ reqs[r].recordCount = dataSources[ds].recordCount
                  /\ jobs'[j].inputRecordCount =
                       IF reqs[r].recordCount = NULL THEN 0 ELSE reqs[r].recordCount
                  /\ jobs'[j].inputRecordCount >= 0
          /\ reqs[r].pc # "insertJob" => DOMAIN jobs' = DOMAIN jobs
          /\ reqs'[r].result = "201" =>
               LET j == reqs[r].jobId
               IN /\ reqs[r].pc = "autoStart"
                  /\ j \in DOMAIN jobs
                  /\ jobs'[j].status = "processing"
                  /\ jobs'[j].startedAt # NULL
                  /\ jobs'[j].currentStage = "initializing"]_vars

\* C10 witness: a create on a data source without a record count has
\* returned 201 and its job is processing with inputRecordCount 0.
C10_Witness ==
  /\ \E r \in Reqs : reqs[r].op = "create" /\ reqs[r].result = "201"
  /\ \E j \in DOMAIN jobs :
       /\ jobs[j].status = "processing"
       /\ jobs[j].organisationId = 2
       /\ jobs[j].inputRecordCount = 0
       /\ jobs[j].startedAt # NULL
       /\ jobs[j].currentStage = "initializing"

\* C11: in every reachable state a request on a job by a caller of another
\* organisation is answered Forbidden at its first step, whether it is a
\* get, a progress, a logs, a cancel or a retry, and so is a create or a
\* list on a project (not deleted) of another organisation; a request
\* answered Forbidden carries no data and its step changes no job and no
\* log entry.
C11_CrossOrganisationForbidden ==
  /\ [](\A org \in Orgs :
          /\ \A j \in DOMAIN jobs :
               org # jobs[j].organisationId =>
                 /\ GetJob_Check(org, j) = [IdleReq EXCEPT !.op = "get", !.pc = "done", !.result = "Forbidden"]
                 /\ GetProgress_Check(org, j, now)
                      = [IdleReq EXCEPT !.op = "progress", !.pc = "done", !.result = "Forbidden"]
                 /\ GetLogs_Check(org, j) = [IdleReq EXCEPT !.op = "logs", !.pc = "done", !.result = "Forbidden"]
                 /\ \A role \in Roles :
                      /\ CancelJob_Check(org, role, j)
                           = [IdleReq EXCEPT !.op = "cancel", !.pc = "done", !.result = "Forbidden"]
                      /\ RetryJob_Check(org, role, j)
                           = [IdleReq EXCEPT !.op = "retry", !.pc = "done", !.result = "Forbidden"]
          /\ \A p \in DOMAIN projects :
               (projects[p].deletedAt = NULL /\ org # projects[p].organisationId) =>
                 /\ \A role \in Roles, m \in MappingIds :
                      CreateJob_Check(org, role, p, m)
                        = [IdleReq EXCEPT !.op = "create", !.pc = "done", !.result = "Forbidden"]
                 /\ \A f \in {NONE, "processing"} :
                      ListJobs_Check(org, p, f)
                        = [IdleReq EXCEPT !.op = "list", !.pc = "done", !.result = "Forbidden"])
  /\ [][\A r \in Reqs :
          (Steps(r) /\ reqs'[r].result = "Forbidden") =>
             /\ reqs[r].pc = "idle"
             /\ reqs'[r].body = NoBody
             /\ jobs' = jobs
             /\ jobLogs' = jobLogs]_vars

\* C11 witness: job 1 belongs to organisation 1; a get of it was answered
\* Forbidden without data, and the job and its log are as they were.
C11_Witness ==
  /\ \E r \in Reqs : reqs[r] = [IdleReq EXCEPT !.op = "get", !.pc = "done", !.result = "Forbidden"]
  /\ jobs = (1 :> SeedJob("completed"))
  /\ jobLogs = <<LogRow(1, MsgCreated, 0)>>

\* C12: progress of every job lies in 0..100, and a step lowers the progress
\* of a job only when it is the reset of a retry of that job, which puts it
\* to 0; so between two observations with no retry in between progress has
\* not decreased.
C12_ProgressOnlyResetByRetry ==
  /\ [](\A j \in DOMAIN jobs : jobs[j].progress \in 0..100)
  /\ [][\A j \in DOMAIN jobs \cap DOMAIN jobs' :
          jobs'[j].progress < jobs[j].progress =>
            /\ jobs'[j].progress = 0
            /\ \E r \in Reqs : /\ reqs[r].op = "retry" /\ reqs[r].pc = "reset"
                               /\ reqs[r].jobId = j /\ Steps(r)]_vars

\* C12 witness: a retry has taken job 1 from progress 50 back to 0 and
\* started it again, while a cancel of that job was refused.
C12_Witness ==
  /\ \E r \in Reqs : reqs[r].op = "retry" /\ reqs[r].result = "200"
  /\ \E r \in Reqs : reqs[r].op = "cancel" /\ reqs[r].result = "BadRequest"
  /\ 1 \in DOMAIN jobs
  /\ jobs[1].status = "processing"
  /\ jobs[1].progress = 0

\* C13: no step changes inputRecordCount of a job that exists before and
\* after it: not a step of create, cancel or retry, not a start, and not a
\* change of the record count of the data source the job was created from.
C13_InputRecordCountFrozen ==
  [][\A j \in DOMAIN jobs \cap DOMAIN jobs' :
       jobs'[j].inputRecordCount = jobs[j].inputRecordCount]_vars

\* C13 witness: job 1 was created when data source 1 had 3 records; the
\* data source now has 5, the job has been retried and runs again, and its
\* inputRecordCount is still 3.
C13_Witness ==
  /\ \E r \in Reqs : reqs[r].op = "retry" /\ reqs[r].result = "200"
  /\ dataSources[1].recordCount = 5
  /\ 1 \in DOMAIN jobs
  /\ jobs[1].dataSourceId = 1
  /\ jobs[1].status = "processing"
  /\ jobs[1].inputRecordCount = 3

\* C14: a job that is pending, processing or cancelled has outputRecordCount
\* and piiDetectedCount null, and no step of create, cancel, retry or the
\* start writes a non-null value to either field.
C14_CountsOnlyWhenCompleted ==
  /\ [](\A j \in DOMAIN jobs :
          jobs[j].status \in {"pending", "processing", "cancelled"} =>
            jobs[j].outputRecordCount = NULL /\ jobs[j].piiDetectedCount = NULL)
  /\ [][\A j \in DOMAIN jobs' :
          /\ (j \notin DOMAIN jobs \/ jobs'[j].outputRecordCount # jobs[j].outputRecordCount)
               => jobs'[j].outputRecordCount = NULL
          /\ (j \notin DOMAIN jobs \/ jobs'[j].piiDetectedCount # jobs[j].piiDetectedCount)
               => jobs'[j].piiDetectedCount = NULL]_vars

\* C14 witness: a retry of job 1 has run its reset, a cancel of the job has
\* returned 200, and the cancelled job has both counts null.
C14_Witness ==
  /\ \E r \in Reqs : reqs[r].op = "retry" /\ reqs[r].pc \in {"insertLog", "start"}
  /\ \E r \in Reqs : reqs[r].op = "cancel" /\ reqs[r].result = "200"
  /\ 1 \in DOMAIN jobs
  /\ jobs[1].status = "cancelled"
  /\ jobs[1].outputRecordCount = NULL
  /\ jobs[1].piiDetectedCount = NULL

\* C15: no step removes a job row: the set of job ids only grows.
C15_JobsNeverDeleted ==
  [][DOMAIN jobs \subseteq DOMAIN jobs']_vars

\* C16: every job that is processing eventually reaches completed or failed
\* (or cancelled, when a cancel is requested): no job stays in processing
\* forever.
C16_LeavesProcessing ==
  \A j \in 1..MaxJobs :
    (j \in DOMAIN jobs /\ jobs[j].status = "processing")
      ~> (j \in DOMAIN jobs /\ jobs[j].status \in {"completed", "failed", "cancelled"})

\* the polls of the progress route that were answered with a snapshot
Polled == {r \in Reqs : reqs[r].op = "progress" /\ reqs[r].result = "200"}

\* C17: a progress request changes no job and no log entry, and two progress
\* requests on a job that was not changed in between return snapshots that
\* agree in jobId, status, currentStage, overallProgress, processedRecords,
\* totalRecords and piiDetectedCount, whatever time lies between them.
C17_ProgressReadOnlyIdempotent ==
  /\ [](\A r1, r2 \in Polled :
          [reqs[r1].body EXCEPT !.estimatedTimeRemaining = NULL]
            = [reqs[r2].body EXCEPT !.estimatedTimeRemaining = NULL])
  /\ [][\A r \in Reqs :
          Received(r, "progress") => jobs' = jobs /\ jobLogs' = jobLogs]_vars

\* C17 witness: two polls of the same job at different times returned
\* snapshots that differ in estimatedTimeRemaining.
C17_Witness ==
  \E r1, r2 \in Polled :
    /\ reqs[r1].at # reqs[r2].at
    /\ reqs[r1].body.jobId = reqs[r2].body.jobId
    /\ reqs[r1].body.estimatedTimeRemaining # reqs[r2].body.estimatedTimeRemaining

\* C18 as stated: for a processing job with constant progress of at least 1,
\* of two polls the later one returns an estimatedTimeRemaining that is at
\* most that of the earlier one.
C18_EtaShrinks ==
  \A r1, r2 \in Polled :
    (/\ jobs[1].status = "processing" /\ jobs[1].progress >= 1
     /\ reqs[r1].at <= reqs[r2].at)
    => reqs[r2].body.estimatedTimeRemaining <= reqs[r1].body.estimatedTimeRemaining

\* C18 amended: for a processing job with constant progress of at least 1,
\* of two polls the later one returns an estimatedTimeRemaining that is at
\* least that of the earlier one, and with progress 100 both return 0.
C18_EtaGrows ==
  \A r1, r2 \in Polled :
    (/\ jobs[1].status = "processing" /\ jobs[1].progress >= 1
     /\ reqs[r1].at <= reqs[r2].at)
    => /\ reqs[r2].body.estimatedTimeRemaining >= reqs[r1].body.estimatedTimeRemaining
       /\ reqs[r1].body.estimatedTimeRemaining >= 0
       /\ jobs[1].progress = 100 => reqs[r2].body.estimatedTimeRemaining = 0

\* C18 witness: a processing job at 33 percent was polled twice and the
\* later poll returned the larger estimatedTimeRemaining.
C18_Witness ==
  \E r1, r2 \in Polled :
    /\ jobs[1].status = "processing" /\ jobs[1].progress = 33
    /\ reqs[r1].at < reqs[r2].at
    /\ reqs[r1].body.estimatedTimeRemaining < reqs[r2].body.estimatedTimeRemaining

\* C19 as stated: estimatedTimeRemaining is null exactly when progress is 0
\* or the job is not processing, and otherwise it is a non-negative number
\* equal to elapsed / (progress / 100) - elapsed (taken in seconds).
C19_EtaExact ==
  \A r \in Polled :
    LET eta == reqs[r].body.estimatedTimeRemaining
        elapsed == reqs[r].at - jobs[1].startedAt
    IN /\ (eta = NULL) <=> (jobs[1].progress = 0 \/ jobs[1].status # "processing")
       /\ eta # NULL =>
            /\ eta >= 0
            /\ eta * 1000 * jobs[1].progress = elapsed * (100 - jobs[1].progress)

\* C19 amended: estimatedTimeRemaining is null exactly when progress is 0 or
\* the job is not processing, and otherwise it is the non-negative whole
\* number of seconds nearest to elapsed / (progress / 100) - elapsed, a half
\* second going up.
C19_EtaRounded ==
  \A r \in Polled :
    LET eta == reqs[r].body.estimatedTimeRemaining
        elapsed == reqs[r].at - jobs[1].startedAt
        d == eta * 1000 * jobs[1].progress - elapsed * (100 - jobs[1].progress)
    IN /\ (eta = NULL) <=> (jobs[1].progress = 0 \/ jobs[1].status # "processing")
       /\ eta # NULL =>
            /\ eta >= 0
            /\ d > 0 - 500 * jobs[1].progress
            /\ d <= 500 * jobs[1].progress

\* C19 witness: a processing job at 50 percent, polled half a second after
\* its start, is given one second as estimatedTimeRemaining.
C19_Witness ==
  \E r \in Polled :
    /\ jobs[1].status = "processing" /\ jobs[1].progress = 50
    /\ reqs[r].at - jobs[1].startedAt = 500
    /\ reqs[r].body.estimatedTimeRemaining = 1

\* C20: a snapshot has totalRecords = inputRecordCount and processedRecords
\* the whole number nearest to inputRecordCount * progress / 100 (a half
\* going up), so that 0 <= processedRecords <= totalRecords, and 100 records
\* at 50 percent give 50.
C20_ProcessedRecords ==
  \A r \in Polled :
    LET b == reqs[r].body
        d == 200 * b.processedRecords - 2 * jobs[1].inputRecordCount * jobs[1].progress
    IN /\ b.totalRecords = jobs[1].inputRecordCount
       /\ d > 0 - 100 /\ d <= 100
       /\ 0 <= b.processedRecords /\ b.processedRecords <= b.totalRecords
       /\ (jobs[1].inputRecordCount = 100 /\ jobs[1].progress = 50) => b.processedRecords = 50

\* C20 witness: a job of 100 records at 50 percent was polled and the
\* snapshot shows 50 of 100 records.
C20_Witness ==
  \E r \in Polled :
    /\ jobs[1].inputRecordCount = 100 /\ jobs[1].progress = 50
    /\ reqs[r].body.processedRecords = 50
    /\ reqs[r].body.totalRecords = 100

\* the entries l of a job as a read shows them when it lists them from the
\* newest to the oldest
NewestFirst(l) ==
  [i \in 1..Len(l) |->
     [level |-> l[Len(l) + 1 - i].level, message |-> l[Len(l) + 1 - i].message,
      timestamp |-> l[Len(l) + 1 - i].createdAt]]

\* C21: no step changes or removes a log entry (the entries of each job
\* before a step are the first entries of the job after it, so their number
\* never decreases), and a read of a job's logs returns the entries in the
\* order of their creation, newest first, also when entries were written at
\* the same instant.
C21_LogsAppendOnlyOrdered ==
  [][/\ \A j \in 1..MaxJobs :
          /\ Len(LogsOf(j)) <= Len(LogsOf(j))'
          /\ SubSeq(LogsOf(j)', 1, Len(LogsOf(j))) = LogsOf(j)
     /\ \A r \in Reqs :
          (reqs[r].op = "logs" /\ reqs[r].pc = "find" /\ reqs'[r].pc = "done") =>
             reqs'[r].body.logs = NewestFirst(LogsOf(reqs[r].jobId))]_vars

\* C22: in every reachable state the schema mapping and the data source of
\* each job exist and belong to the project of the job, the data source is
\* the one the mapping maps, and the job, its mapping and its data source
\* carry the organisation that owns the project.
C22_JobReferencesAgree ==
  \A j \in DOMAIN jobs :
    LET job == jobs[j]
        m == job.schemaMappingId
        d == job.dataSourceId
    IN /\ m \in DOMAIN schemaMappings /\ d \in DOMAIN dataSources
       /\ schemaMappings[m].projectId = job.projectId
       /\ dataSources[d].projectId = job.projectId
       /\ schemaMappings[m].dataSourceId = d
       /\ job.organisationId = projects[job.projectId].organisationId
       /\ schemaMappings[m].organisationId = job.organisationId
       /\ dataSources[d].organisationId = job.organisationId

\* C22 witness: a mapping was created for data source 6 of project 2 and a
\* job of project 2 and organisation 2 was created from it.
C22_Witness ==
  /\ \E j \in DOMAIN jobs :
       /\ jobs[j].schemaMappingId = 5 /\ jobs[j].dataSourceId = 6
       /\ jobs[j].projectId = 2 /\ jobs[j].organisationId = 2
  /\ \E r \in Reqs : reqs[r].op = "createMapping" /\ reqs[r].result = "201"

\* err is none of the errors the handler knows: not an AppError, not a
\* validation, token or upload error, not a constraint violation
Unrecognised(err) ==
  /\ ~err.isAppError
  /\ err.name \notin {"ZodError", "JsonWebTokenError", "TokenExpiredError", "MulterError"}
  /\ ~Includes(err.message, "unique constraint")
  /\ ~Includes(err.message, "foreign key constraint")

\* C24: every error response carries a code, and an error the handler does
\* not know is answered with 500, INTERNAL_ERROR and the generic message,
\* which holds no part of the error's own message, whatever NODE_ENV is.
C24_ErrorsCodedInternalGeneric ==
  \A r \in Reqs :
    reqs[r].op = "error" =>
      LET b == reqs[r].body
          err == reqs[r].thrown
      IN /\ b.kind = "error" /\ b.code \notin {NONE, ""}
         /\ Unrecognised(err) =>
              /\ b.status = 500 /\ b.code = "INTERNAL_ERROR"
              /\ b.message = MsgUnexpected
              /\ \A i \in 1..Len(err.message) : ~Includes(b.message, err.message[i])

\* C25: in every window of the limiter at most 10 creation requests of one
\* caller are passed on to the create handler; a creation request (of a
\* caller that passes requireRole) that arrives when 10 of the caller's
\* requests have been passed on in the running window is answered with
\* RATE_LIMIT_EXCEEDED at once and writes no job and no log entry.
C25_TenCreatesPerWindow ==
  /\ [](\A key \in DOMAIN rateStore : rateStore[key].reached <= 10)
  /\ [](\A r \in Reqs : reqs[r].result = "RateLimitExceeded" => reqs[r].pc = "done")
  /\ [][\A r \in Reqs, key \in Callers :
          (/\ Received(r, "create")
           /\ rateStore' # rateStore
           /\ key \in DOMAIN rateStore'
           /\ rateStore'[key].hits = RateEntry(key, now).hits + 1
           /\ RateEntry(key, now).reached >= 10) =>
             /\ reqs'[r].pc = "done" /\ reqs'[r].result = "RateLimitExceeded"
             /\ jobs' = jobs /\ nextJobId' = nextJobId /\ jobLogs' = jobLogs]_vars

\* C25 witness: within one window caller a has sent 11 creation requests,
\* 10 were passed on (one of them created a job) and the eleventh has just
\* been answered with RATE_LIMIT_EXCEEDED, while the request of caller b was
\* passed on.
C25_Witness ==
  /\ DOMAIN rateStore = {"a", "b"}
  /\ rateStore["a"].hits = 11 /\ rateStore["a"].reached = 10
  /\ rateStore["b"].hits = 1 /\ rateStore["b"].reached = 1
  /\ rateStore["a"].resetTime > now /\ rateStore["b"].resetTime > now
  /\ reqs[1].result = "RateLimitExceeded"
  /\ DOMAIN jobs = {1}

\* l has an entry that records a start: one that is neither the entry of
\* the create, nor that of a retry, nor that of a cancel
StartLogged(l) ==
  \E i \in 1..Len(l) : l[i].message \notin {MsgCreated, MsgRetry, MsgCancelled}

\* C26: when create or retry has made its start update and answers, the
\* job has at least two log entries and one of them records the start.
C26_EveryStartLogged ==
  [][\A r \in Reqs, j \in 1..MaxJobs :
        (/\ reqs[r].op \in {"create", "retry"}
         /\ reqs[r].pc \in {"autoStart", "start"}
         /\ reqs[r].jobId = j
         /\ reqs'[r].pc = "done"
         /\ j \in DOMAIN jobs') =>
           /\ Len(LogsOf(j)') >= 2
           /\ StartLogged(LogsOf(j)')]_vars

\* C27: in every reachable state a processing job has startedAt and
\* currentStage set, and a pending job has startedAt, completedAt and
\* errorMessage null and progress 0.
C27_ProcessingAndPendingShape ==
  \A j \in DOMAIN jobs :
    /\ jobs[j].status = "processing" =>
         jobs[j].startedAt # NULL /\ jobs[j].currentStage # NONE
    /\ jobs[j].status = "pending" =>
         /\ jobs[j].startedAt = NULL /\ jobs[j].completedAt = NULL
         /\ jobs[j].errorMessage = NONE /\ jobs[j].progress = 0

\* C27 witness: a retry has reset the failed job 1 to pending and has not
\* started it yet; job 2, created by the other request, is processing.
C27_Witness ==
  /\ DOMAIN jobs = {1, 2}
  /\ jobs[1].status = "pending" /\ jobs[1].inputRecordCount = 3
  /\ jobs[2].status = "processing"
  /\ \E r \in Reqs : reqs[r].op = "retry" /\ reqs[r].pc \in {"insertLog", "start"}

\* C28: from a store without jobs no job is ever failed or completed (so
\* that cancelled is the only terminal status reached), no retry gets past
\* its checks, and the retry of an existing job by an authorised caller is
\* answered with BadRequest.
C28_NoFailedNoCompleted ==
  /\ \A j \in DOMAIN jobs : jobs[j].status \in {"pending", "processing", "cancelled"}
  /\ \A r \in Reqs :
       reqs[r].op = "retry" =>
         /\ reqs[r].pc = "done"
         /\ reqs[r].result \in {"BadRequest", "Forbidden", "NotFound"}
  /\ \A org \in Orgs, role \in Roles, j \in DOMAIN jobs :
       Authorised(org, role, j) => RetryJob_Check(org, role, j).result = "BadRequest"

\* C28 witness: job 1 was created through the API and is processing, and a
\* retry of it was refused with BadRequest.
C28_Witness ==
  /\ DOMAIN jobs = {1} /\ jobs[1].status = "processing"
  /\ \E r \in Reqs : reqs[r].op = "create" /\ reqs[r].result = "201"
  /\ \E r \in Reqs : reqs[r].op = "retry" /\ reqs[r].result = "BadRequest"

\* C29: no step takes the last admin from an organisation: an organisation
\* that has an admin team member before a step has one after it.
C29_AlwaysAnAdmin ==
  [][\A org \in Orgs : AdminsOf(org, 0) # {} => AdminsOf(org, 0)' # {}]_vars

\* users and team members that were created from an invitation
InvitedUsers == {u \in DOMAIN users : users[u].invitedBy # NULL}

InvitedMembers == DOMAIN teamMembers \ DOMAIN InitTeamMembers

\* C30: after every step at most one user and at most one team member
\* exist that were created from the open invitation, and a request that
\* looks the invitation up when its acceptedAt is set is answered with Gone.
C30_InvitationUsedOnce ==
  [][/\ Cardinality(InvitedUsers') <= 1
     /\ Cardinality(InvitedMembers') <= 1
     /\ \A token \in DOMAIN invitations :
          invitations[token].acceptedAt # NULL =>
            Accept_Check(token, now).result = "Gone"
     /\ \A r \in Reqs :
          (reqs[r].op = "register" /\ reqs[r].pc = "findInvitation" /\ Steps(r)
            /\ reqs[r].token \in DOMAIN invitations
            /\ invitations[reqs[r].token].acceptedAt # NULL) =>
              reqs'[r].result = "Gone"]_vars

====
